---- MODULE Spec2Model ----
(***************************************************************************)
(* Camera-placement optimiser: the two genetic algorithms of              *)
(* algoritmo_genetico.py (blind spots) and ga_cobertura.py (coverage),    *)
(* with their fitness functions, operators, repair and diversity selector.*)
(*                                                                         *)
(* Numbers.  The program computes in floating point; the model computes   *)
(* in integers on a lattice:                                               *)
(*   - a coordinate is an integer number of lattice cells, one cell being *)
(*     CellM metres, and haversine_m is the planar distance in metres,    *)
(*     rounded down;                                                       *)
(*   - a blind-spot fitness is an integer number of 1/FitOne, so the      *)
(*     program's range [0,1] is 0..FitOne and its 0.05 is FitOne \div 20; *)
(*   - a percentage is an integer number of 1/PctUnit percent, so the     *)
(*     program's range [0,100] is 0..Pct100.                               *)
(* Random draws are nondeterministic choices over the lattice.            *)
(***************************************************************************)
EXTENDS Integers, Sequences, FiniteSets, TLC

VARIABLES
    \* seleccionar_espaciados, called on its own
    sel_pc, sel_camaras, candidatos, min_sep_m, max_puntos, seleccionados,
    n_greedy,
    \* algoritmo_genetico_puntos_ciegos: position, arguments, locals, return
    \* value; max_ant is the best fitness of the previous generation
    pc_pc, camaras_pc, cfg_pc, poblacion_pc, gen_pc, retorno_pc, max_ant,
    \* algoritmo_genetico_mejorar_cobertura: position, arguments, locals,
    \* return value; max_ant_mc is the best fitness of the previous generation
    pc_mc, camaras_mc, cfg_mc, puntos_eval, poblacion_mc, best_ind, best_fit,
    gen_mc, retorno_mc, max_ant_mc,
    \* _repair_separacion, called on its own: position, arguments, the local
    \* out, the iterations begun, and how the loop was left
    rep_pc, rep_in, rep_out, rep_iters, rep_salida,
    \* the fitness functions, called on their own: arguments and result
    fit_pc, fit_in, fit_out,
    \* the state of the generator of the module random, which every draw of
    \* both source files reads and advances, and the calls made so far on it
    az_rng, az_hist,
    \* algoritmo_genetico_mejorar_cobertura with its lists as objects: the
    \* objects by identity, and poblacion and best_ind as references to them
    ref_pc, ref_cfg, ref_heap, ref_pob, ref_best, ref_best_fit, ref_gen, ref_ret,
    \* registrar_usuario: whether the table usuarios has a unique constraint
    \* on email, its committed rows, and the requests in progress
    usr_unico, usr_tabla, usr_req

vars_sel == << sel_pc, sel_camaras, candidatos, min_sep_m, max_puntos,
               seleccionados, n_greedy >>
vars_pc == << pc_pc, camaras_pc, cfg_pc, poblacion_pc, gen_pc, retorno_pc,
              max_ant >>
vars_mc == << pc_mc, camaras_mc, cfg_mc, puntos_eval, poblacion_mc, best_ind,
              best_fit, gen_mc, retorno_mc, max_ant_mc >>
vars_rep == << rep_pc, rep_in, rep_out, rep_iters, rep_salida >>
vars_fit == << fit_pc, fit_in, fit_out >>
vars_az == << az_rng, az_hist >>
vars_ref == << ref_pc, ref_cfg, ref_heap, ref_pob, ref_best, ref_best_fit, ref_gen, ref_ret >>
vars_usr == << usr_unico, usr_tabla, usr_req >>
vars == << vars_sel, vars_pc, vars_mc, vars_rep, vars_fit, vars_az, vars_ref, vars_usr >>

----------------------------------------------------------------------------
(* Units and bounds *)

\* metres per lattice cell
CellM == 50
\* the blind-spot fitness 1.0
FitOne == 10000
\* the program's 1e-9 / 1e-6 guards against a zero divisor: the smallest
\* positive quantity of the integer model
Eps == 1

\* Bounds of the model
\* candidates and result cap of seleccionar_espaciados called on its own
MaxCand == 3
MaxCap == 3
\* tam_poblacion and generaciones of the blind-spot algorithm
MaxPob == 3
MaxGen == 2
\* tam_poblacion and generaciones of the coverage algorithm
MaxPobMc == 2
MaxGenMc == 2
\* points of an individual given to _repair_separacion or fitness_cobertura
\* called on its own
MaxN == 2
\* max_iters of _repair_separacion called on its own
MaxItersRep == 3
\* largest Gaussian displacement drawn, in cells
MaxRuido == 1
\* states of the generator of the module random, and calls made on it
AzMod == 16
MaxLlamadas == 2

Min(a, b) == IF a < b THEN a ELSE b
Max(a, b) == IF a > b THEN a ELSE b

RECURSIVE IsqrtIter(_, _, _)
IsqrtIter(x, lo, hi) ==
    IF lo >= hi THEN lo
    ELSE LET mid == (lo + hi + 1) \div 2
         IN  IF mid * mid <= x THEN IsqrtIter(x, mid, hi)
             ELSE IsqrtIter(x, lo, mid - 1)

\* floor of the square root (46340 is the largest root of a 32-bit square)
Isqrt(x) == IsqrtIter(x, 0, Min(x, 46340))

RECURSIVE SumSeq(_)
SumSeq(s) == IF s = << >> THEN 0 ELSE Head(s) + SumSeq(Tail(s))

RECURSIVE MinSeq(_)
MinSeq(s) == IF Len(s) = 1 THEN s[1] ELSE Min(Head(s), MinSeq(Tail(s)))

RECURSIVE MaxSeq(_)
MaxSeq(s) == IF Len(s) = 1 THEN s[1] ELSE Max(Head(s), MaxSeq(Tail(s)))

\* all sequences over S of length 0..n
SeqsUpTo(S, n) == UNION { [1..k -> S] : k \in 0..n }

----------------------------------------------------------------------------
(* Helpers of algoritmo_genetico.py / ga_cobertura.py *)

\* distance in metres between two lattice points
haversine_m(lat1, lon1, lat2, lon2) ==
    Isqrt(CellM * CellM *
          ((lat2 - lat1) * (lat2 - lat1) + (lon2 - lon1) * (lon2 - lon1)))

\* _clamp without its lower bound
_clamp_sin_piso(v, lo, hi) == Min(hi, v)

_clamp(v, lo, hi) == Max(lo, Min(hi, v))

\* << min_lat, max_lat, min_lon, max_lon >> of a non-empty camera sequence
_bbox(camaras) ==
    LET lats == [i \in 1..Len(camaras) |-> camaras[i][1]]
        lons == [i \in 1..Len(camaras) |-> camaras[i][2]]
    IN  << MinSeq(lats), MaxSeq(lats), MinSeq(lons), MaxSeq(lons) >>

_dist_min_a_camaras(lat, lon, camaras) ==
    MinSeq([i \in 1..Len(camaras) |->
               haversine_m(lat, lon, camaras[i][1], camaras[i][2])])

\* s with x inserted before the first element greater than x
RECURSIVE InsertAsc(_, _)
InsertAsc(s, x) ==
    IF s = << >> THEN << x >>
    ELSE IF Head(s) > x THEN << x >> \o s
    ELSE << Head(s) >> \o InsertAsc(Tail(s), x)

RECURSIVE SortAsc(_)
SortAsc(s) ==
    IF s = << >> THEN << >>
    ELSE InsertAsc(SortAsc(SubSeq(s, 1, Len(s) - 1)), s[Len(s)])

_dist_prom_k_vecinas(lat, lon, camaras, k) ==
    LET dists == SortAsc([i \in 1..Len(camaras) |->
                             haversine_m(lat, lon, camaras[i][1], camaras[i][2])])
        kk == Max(1, Min(k, Len(dists)))
    IN  SumSeq(SubSeq(dists, 1, kk)) \div kk

\* distance in metres from a point to the centroid of the cameras; the
\* centroid (sum / n) is not a lattice point, so both are scaled by n
DistCentroide(lat, lon, camaras) ==
    LET n == Len(camaras)
        slat == SumSeq([i \in 1..n |-> camaras[i][1]])
        slon == SumSeq([i \in 1..n |-> camaras[i][2]])
    IN  Isqrt(CellM * CellM *
              ((lat * n - slat) * (lat * n - slat)
               + (lon * n - slon) * (lon * n - slon))) \div n

----------------------------------------------------------------------------
(* fitness_punto_completo *)

\* 0.05, 0.70, 0.30, 0.15 and 0.5 of the source as fractions of FitOne
CincoPorCiento == FitOne \div 20

cerca_borde(lat, lon, camaras, borde_pct) ==
    LET bb == _bbox(camaras)
        \* spans and borders in 1/100 of a cell, so that span * borde_pct / 100
        \* is exact; a zero span becomes the smallest positive quantity
        lat_borde == Max((bb[2] - bb[1]) * 100, Eps) * borde_pct
        lon_borde == Max((bb[4] - bb[3]) * 100, Eps) * borde_pct
    IN  \/ lat * 10000 < bb[1] * 10000 + lat_borde
        \/ lat * 10000 > bb[2] * 10000 - lat_borde
        \/ lon * 10000 < bb[3] * 10000 + lon_borde
        \/ lon * 10000 > bb[4] * 10000 - lon_borde

\* the score before the final clamp, for a non-empty camera set and a point
\* farther than radio_cobertura_m from every camera
ScoreHueco(punto, camaras, max_interes_m, max_extrapolacion_m, k_vecinos, borde_pct) ==
    LET lat == punto[1]
        lon == punto[2]
        dmin == _dist_min_a_camaras(lat, lon, camaras)
        d_use == Min(dmin, max_interes_m)
        hueco == _clamp((d_use * FitOne) \div Max(max_interes_m, Eps), 0, FitOne)
        d_k == _dist_prom_k_vecinas(lat, lon, camaras, k_vecinos)
        interno == _clamp(FitOne - Min((d_k * FitOne) \div Max(max_interes_m, Eps),
                                       FitOne), 0, FitOne)
        d_cent == DistCentroide(lat, lon, camaras)
        penal0 == IF d_cent > max_interes_m
                  THEN _clamp(((d_cent - max_interes_m) * FitOne)
                                \div Max(max_extrapolacion_m - max_interes_m, Eps),
                              0, FitOne)
                  ELSE 0
        penal_extrap == penal0 \div 2
        penal_borde == IF cerca_borde(lat, lon, camaras, borde_pct)
                       THEN (15 * FitOne) \div 100 ELSE 0
    IN  (70 * hueco + 30 * interno) \div 100
        - (70 * penal_extrap) \div 100 - penal_borde

fitness_punto_completo(punto, camaras, radio_cobertura_m, max_interes_m, max_extrapolacion_m, k_vecinos, borde_pct) ==
    IF camaras = << >> THEN 0
    ELSE LET dmin == _dist_min_a_camaras(punto[1], punto[2], camaras)
         IN  IF dmin <= radio_cobertura_m
             THEN _clamp((CincoPorCiento * dmin) \div Max(radio_cobertura_m, Eps),
                         0, CincoPorCiento)
             ELSE _clamp(ScoreHueco(punto, camaras, max_interes_m,
                                    max_extrapolacion_m, k_vecinos, borde_pct),
                         0, FitOne)

\* defaults of fitness_punto_completo / algoritmo_genetico_puntos_ciegos
RadioCoberturaDef == 80
MaxInteresDef == 350
MaxExtrapolacionDef == 900
KVecinosDef == 4
BordePctDef == 10

FitnessDef(punto, camaras) ==
    fitness_punto_completo(punto, camaras, RadioCoberturaDef, MaxInteresDef,
                           MaxExtrapolacionDef, KVecinosDef, BordePctDef)

----------------------------------------------------------------------------
(* seleccionar_espaciados *)

\* GreedyPass comparing a candidate with the last accepted element only
RECURSIVE GreedyPassSoloUltimo(_, _, _, _, _)
GreedyPassSoloUltimo(cands, i, sel, min_sep, max_p) ==
    IF i > Len(cands) \/ Len(sel) >= max_p THEN sel
    ELSE LET c == cands[i]
             ok == \/ sel = << >>
                   \/ haversine_m(c[1], c[2], sel[Len(sel)][1], sel[Len(sel)][2])
                         >= min_sep
         IN  GreedyPassSoloUltimo(cands, i + 1,
                                  IF ok THEN Append(sel, c) ELSE sel,
                                  min_sep, max_p)

\* first loop: candidates in order, accepted when at least min_sep from
\* every candidate accepted so far, until max_p are accepted
RECURSIVE GreedyPass(_, _, _, _, _)
GreedyPass(cands, i, sel, min_sep, max_p) ==
    IF i > Len(cands) \/ Len(sel) >= max_p THEN sel
    ELSE LET c == cands[i]
             ok == \A j \in 1..Len(sel) :
                      haversine_m(c[1], c[2], sel[j][1], sel[j][2]) >= min_sep
         IN  GreedyPass(cands, i + 1, IF ok THEN Append(sel, c) ELSE sel,
                        min_sep, max_p)

\* "c not in seleccionados": equality of the whole (lat, lon, fit) triple
EnLista(c, sel) == \E j \in 1..Len(sel) : sel[j] = c

\* second loop: candidates in order, appended when not already present
RECURSIVE Backfill(_, _, _, _)
Backfill(cands, i, sel, max_p) ==
    IF i > Len(cands) \/ Len(sel) >= max_p THEN sel
    ELSE Backfill(cands, i + 1,
                  IF EnLista(cands[i], sel) THEN sel ELSE Append(sel, cands[i]),
                  max_p)

seleccionar_espaciados(cands, min_sep, max_p) ==
    LET g == GreedyPass(cands, 1, << >>, min_sep, max_p)
    IN  IF Len(g) < max_p THEN Backfill(cands, 1, g, max_p) ELSE g

\* candidatos.sort(key=fit, reverse=True): stable, descending
RECURSIVE InsertDesc(_, _)
InsertDesc(s, c) ==
    IF s = << >> THEN << c >>
    ELSE IF Head(s)[3] < c[3] THEN << c >> \o s
    ELSE << Head(s) >> \o InsertDesc(Tail(s), c)

RECURSIVE SortDesc(_)
SortDesc(s) ==
    IF s = << >> THEN << >>
    ELSE InsertDesc(SortDesc(SubSeq(s, 1, Len(s) - 1)), s[Len(s)])

\* lines 356-357: zip(poblacion, fitnesses_final), sorted
Candidatos(pob, fits) ==
    SortDesc([i \in 1..Len(pob) |-> << pob[i][1], pob[i][2], fits[i] >>])

----------------------------------------------------------------------------
(* Operators of algoritmo_genetico_puntos_ciegos *)

\* lines 285-296: the bounding box widened by margin_pct percent of each
\* span (a zero span counts as the smallest positive quantity), the margin
\* rounded down to whole cells
BboxAmpliado(cams, margin_pct) ==
    LET bb == _bbox(cams)
        lat_margin == (Max((bb[2] - bb[1]) * 100, Eps) * margin_pct) \div 10000
        lon_margin == (Max((bb[4] - bb[3]) * 100, Eps) * margin_pct) \div 10000
    IN  << bb[1] - lat_margin, bb[2] + lat_margin,
           bb[3] - lon_margin, bb[4] + lon_margin >>

\* (random.uniform(min_lat, max_lat), random.uniform(min_lon, max_lon))
PuntosEn(box) == (box[1]..box[2]) \X (box[3]..box[4])

\* lines 305-314 and 345-354: the fitness of every individual
FitnessesPc(pob, cams, c) ==
    [i \in 1..Len(pob) |->
        fitness_punto_completo(pob[i], cams, c.radio_cobertura_m, MaxInteresDef,
                               MaxExtrapolacionDef, KVecinosDef, BordePctDef)]

\* sorted(range(len(poblacion)), key=fitnesses, reverse=True): stable
RECURSIVE InsertIdx(_, _, _)
InsertIdx(s, i, fit) ==
    IF s = << >> THEN << i >>
    ELSE IF fit[Head(s)] < fit[i] THEN << i >> \o s
    ELSE << Head(s) >> \o InsertIdx(Tail(s), i, fit)

RECURSIVE OrdenHasta(_, _)
OrdenHasta(fit, n) ==
    IF n = 0 THEN << >> ELSE InsertIdx(OrdenHasta(fit, n - 1), n, fit)

Orden(fit) == OrdenHasta(fit, Len(fit))

\* Elites sorting without reverse=True: the worst individuals are kept
ElitesSinReverse(pob, fit, elitismo) ==
    LET o == Orden(fit)
        m == Min(Max(1, elitismo), Len(o))
    IN  [j \in 1..m |-> pob[o[Len(o) + 1 - j]]]

\* Elites as orden[:elitismo], without the minimum of one
ElitesSinMinimo(pob, fit, elitismo) ==
    LET o == Orden(fit)
        m == Min(Max(0, elitismo), Len(o))
    IN  [j \in 1..m |-> pob[o[j]]]

\* [poblacion[i] for i in orden[:max(1, elitismo)]]
Elites(pob, fit, elitismo) ==
    LET o == Orden(fit)
        m == Min(Max(1, elitismo), Len(o))
    IN  [j \in 1..m |-> pob[o[j]]]

\* the indices one tournament can return: the best of some sample of
\* min(k, len) distinct contenders
Ganadores(fit, k) ==
    LET n == Len(fit)
        kk == Min(k, n)
    IN  { i \in 1..n : \E S \in SUBSET (1..n) :
              /\ Cardinality(S) = kk
              /\ i \in S
              /\ \A j \in S : fit[j] <= fit[i] }

\* the results seleccion_torneo can return
seleccion_torneo(pob, fit, k_torneo, n) ==
    [1..n -> { pob[i] : i \in Ganadores(fit, k_torneo) }]

\* _blx with an extension that is not scaled by the distance d
BlxRangoSinDistancia(a, b, alpha_pct) ==
    LET lo == Min(a, b)
        hi == Max(a, b)
        ext == alpha_pct \div 100
    IN  (lo - ext)..(hi + ext)

\* random.uniform(lo - alpha * d, hi + alpha * d), on the lattice
BlxRango(a, b, alpha_pct) ==
    LET lo == Min(a, b)
        hi == Max(a, b)
        d == hi - lo
        ext == (alpha_pct * d) \div 100
    IN  Min(lo - ext, hi + ext)..Max(lo - ext, hi + ext)

\* the children cruzar_blx_alpha can return
cruzar_blx_alpha(p1, p2, alpha_pct) ==
    BlxRango(p1[1], p2[1], alpha_pct) \X BlxRango(p1[2], p2[2], alpha_pct)

Ruido == (0 - MaxRuido)..MaxRuido

\* mutar_gauss without lines 217-218: nothing is clamped
mutar_gauss_sin_clamp(ind, box) ==
    { ind } \cup { << ind[1] + dl, ind[2] + dn >> : dl \in Ruido, dn \in Ruido }

\* the results mutar_gauss can return: unchanged or displaced, then clamped
mutar_gauss(ind, box) ==
    { << _clamp(ind[1], box[1], box[2]), _clamp(ind[2], box[3], box[4]) >> }
    \cup { << _clamp(ind[1] + dl, box[1], box[2]),
              _clamp(ind[2] + dn, box[3], box[4]) >> : dl \in Ruido, dn \in Ruido }

\* lines 327-335: the children of two parents drawn from padres
HijosPc(pads, alpha_pct, box) ==
    UNION { UNION { mutar_gauss(h, box) :
                      h \in cruzar_blx_alpha(p1, p2, alpha_pct) } :
            p1 \in pads, p2 \in pads }

\* lines 324-340 without the while loop: the elites alone
NuevasPcSoloElites(pob, cams, c) ==
    { Elites(pob, FitnessesPc(pob, cams, c), c.elitismo) }

\* lines 305-342: the populations one generation can produce: the elites,
\* then children of the tournament winners until tam_poblacion is reached
NuevasPc(pob, cams, c) ==
    LET fit == FitnessesPc(pob, cams, c)
        elites == Elites(pob, fit, c.elitismo)
        box == BboxAmpliado(cams, c.margin_pct)
        \* the sets of parents random.choice(padres) can draw from
        pools == { { pads[i] : i \in 1..Len(pads) } :
                     pads \in seleccion_torneo(pob, fit, c.k_torneo,
                                               c.tam_poblacion) }
    IN  UNION { { elites \o hijos :
                    hijos \in [1..(c.tam_poblacion - Len(elites)) ->
                                  HijosPc(pool, c.alpha_pct, box)] } :
                pool \in pools }

MaxFit(fit) == MaxSeq(fit)

----------------------------------------------------------------------------
(* Coverage metrics and fitness of ga_cobertura.py *)

\* one percent, and the program's 100.0; PctUnit is a multiple of every
\* grid size up to 10, so that count / n * 100 is exact
PctUnit == 2520
Pct100 == 100 * PctUnit

contar_cobertura_en_punto(punto, cams, radio_m) ==
    Cardinality({ i \in 1..Len(cams) :
                    haversine_m(punto[1], punto[2], cams[i][1], cams[i][2])
                      <= radio_m })

\* the loop of lines 120-132 with `elif k >= 2` for the third class: a
\* point in range of three cameras is counted twice
ConteoNivelesSolapado(puntos, camaras_totales, radio_m) ==
    LET n == Len(puntos)
        k(i) == contar_cobertura_en_punto(puntos[i], camaras_totales, radio_m)
    IN  << Cardinality({ i \in 1..n : k(i) <= 0 }),
           Cardinality({ i \in 1..n : k(i) = 1 }),
           Cardinality({ i \in 1..n : k(i) >= 2 }),
           Cardinality({ i \in 1..n : k(i) > 2 }) >>

\* lines 117-132: << c0, c1, c2, c3 >>, the points in range of no camera,
\* of one, of two, of three or more
ConteoNiveles(puntos, camaras_totales, radio_m) ==
    LET n == Len(puntos)
        k(i) == contar_cobertura_en_punto(puntos[i], camaras_totales, radio_m)
    IN  << Cardinality({ i \in 1..n : k(i) <= 0 }),
           Cardinality({ i \in 1..n : k(i) = 1 }),
           Cardinality({ i \in 1..n : k(i) = 2 }),
           Cardinality({ i \in 1..n : ~(k(i) <= 0) /\ k(i) # 1 /\ k(i) # 2 }) >>

\* metricas_niveles_cobertura giving the share of the points in range of
\* exactly one camera as cobertura_total
metricas_solo_nivel_1(puntos, camaras_totales, radio_m) ==
    IF puntos = << >>
    THEN [ cobertura_total |-> 0, sin_cobertura |-> Pct100,
           nivel_1 |-> 0, nivel_2 |-> 0, nivel_3_mas |-> 0 ]
    ELSE LET n == Len(puntos)
             c == ConteoNiveles(puntos, camaras_totales, radio_m)
         IN  [ cobertura_total |-> (c[2] * Pct100) \div n,
               sin_cobertura |-> (c[1] * Pct100) \div n,
               nivel_1 |-> (c[2] * Pct100) \div n,
               nivel_2 |-> (c[3] * Pct100) \div n,
               nivel_3_mas |-> (c[4] * Pct100) \div n ]

\* lines 106-143
metricas_niveles_cobertura(puntos, camaras_totales, radio_m) ==
    IF puntos = << >>
    THEN [ cobertura_total |-> 0, sin_cobertura |-> Pct100,
           nivel_1 |-> 0, nivel_2 |-> 0, nivel_3_mas |-> 0 ]
    ELSE LET n == Len(puntos)
             c == ConteoNiveles(puntos, camaras_totales, radio_m)
             sin_cob == (c[1] * Pct100) \div n
         IN  [ cobertura_total |-> Pct100 - sin_cob,
               sin_cobertura |-> sin_cob,
               nivel_1 |-> (c[2] * Pct100) \div n,
               nivel_2 |-> (c[3] * Pct100) \div n,
               nivel_3_mas |-> (c[4] * Pct100) \div n ]

\* peso * (1 - d / max(min_dist, 1e-6)), rounded down
PenalTermino(peso, d, min_dist) ==
    (peso * (Max(min_dist, Eps) - d)) \div Max(min_dist, Eps)

\* peso_penalizacion in units of PctUnit
_penalizar_camaras_muy_cercanas(camaras_nuevas, camaras_existentes, min_dist_entre_nuevas_m, min_dist_a_existentes_m, peso_penalizacion) ==
    LET n == Len(camaras_nuevas)
        d(i, j) == haversine_m(camaras_nuevas[i][1], camaras_nuevas[i][2],
                               camaras_nuevas[j][1], camaras_nuevas[j][2])
        pares == { ij \in (1..n) \X (1..n) :
                     ij[1] < ij[2] /\ d(ij[1], ij[2]) < min_dist_entre_nuevas_m }
        pen_nuevas == [ ij \in pares |->
                          PenalTermino(peso_penalizacion, d(ij[1], ij[2]),
                                       min_dist_entre_nuevas_m) ]
        dmin(i) == _dist_min_a_camaras(camaras_nuevas[i][1], camaras_nuevas[i][2],
                                       camaras_existentes)
        cerca == IF min_dist_a_existentes_m > 0 /\ camaras_existentes # << >>
                 THEN { i \in 1..n : dmin(i) < min_dist_a_existentes_m }
                 ELSE { }
        pen_exist == [ i \in cerca |->
                         PenalTermino((peso_penalizacion * 75) \div 100, dmin(i),
                                      min_dist_a_existentes_m) ]
        RECURSIVE Suma(_, _)
        Suma(f, S) == IF S = { } THEN 0
                      ELSE LET x == CHOOSE y \in S : TRUE
                           IN  f[x] + Suma(f, S \ { x })
    IN  Suma(pen_nuevas, pares) + Suma(pen_exist, cerca)

\* 0.15, the default peso_sobrecobertura, in percent
PesoSobrecoberturaPct == 15

\* the score of fitness_cobertura before its final clamp
ScoreCobertura(puntos, camaras_existentes, camaras_nuevas, radio_m, penalizar_sobrecobertura, penalizar_cercania, min_dist_entre_nuevas_m, min_dist_a_existentes_m, peso_cercania) ==
    LET met == metricas_niveles_cobertura(puntos,
                                          camaras_existentes \o camaras_nuevas,
                                          radio_m)
        sobre == IF penalizar_sobrecobertura
                 THEN (PesoSobrecoberturaPct * met.nivel_3_mas) \div 100 ELSE 0
        cerc == IF penalizar_cercania /\ camaras_nuevas # << >>
                THEN _penalizar_camaras_muy_cercanas(
                         camaras_nuevas, camaras_existentes,
                         min_dist_entre_nuevas_m, min_dist_a_existentes_m,
                         peso_cercania)
                ELSE 0
    IN  met.cobertura_total - sobre - cerc

fitness_cobertura(puntos, camaras_existentes, camaras_nuevas, radio_m, penalizar_sobrecobertura, penalizar_cercania, min_dist_entre_nuevas_m, min_dist_a_existentes_m, peso_cercania) ==
    _clamp(ScoreCobertura(puntos, camaras_existentes, camaras_nuevas, radio_m,
                          penalizar_sobrecobertura, penalizar_cercania,
                          min_dist_entre_nuevas_m, min_dist_a_existentes_m,
                          peso_cercania),
           0, Pct100)

----------------------------------------------------------------------------
(* _repair_separacion *)

\* default max_iters
MaxItersDef == 35

MuyCercaDeExistente(p, camaras_existentes, min_dist_a_existentes_m) ==
    \E i \in 1..Len(camaras_existentes) :
        haversine_m(p[1], p[2], camaras_existentes[i][1], camaras_existentes[i][2])
          < min_dist_a_existentes_m

\* the sequences of length n whose i-th element is drawn from opc[i]
RECURSIVE Producto(_, _)
Producto(opc, n) ==
    IF n = 0 THEN { << >> }
    ELSE { Append(q, x) : q \in Producto(opc, n - 1), x \in opc[n] }

\* lines 205-217: the outcomes << out, changed >> of the pass against the
\* existing cameras; every point that is too close is drawn anew
RepairExistentes(out, camaras_existentes, box, min_dist_a_existentes_m) ==
    IF min_dist_a_existentes_m > 0
    THEN LET cerca == { i \in 1..Len(out) :
                          MuyCercaDeExistente(out[i], camaras_existentes,
                                              min_dist_a_existentes_m) }
             opc == [ i \in 1..Len(out) |->
                        IF i \in cerca THEN PuntosEn(box) ELSE { out[i] } ]
         IN  { << o, cerca # { } >> : o \in Producto(opc, Len(out)) }
    ELSE { << out, FALSE >> }

\* the pairs (i, j), i < j, in the order of the two nested loops
RECURSIVE ParesDesde(_, _, _)
ParesDesde(i, j, n) ==
    IF i > n THEN << >>
    ELSE IF j > n THEN ParesDesde(i + 1, i + 2, n)
    ELSE << << i, j >> >> \o ParesDesde(i, j + 1, n)

\* RepairPares redrawing out[i], the first point of a close pair
RECURSIVE RepairParesPrimero(_, _, _, _, _)
RepairParesPrimero(est, pares, k, box, min_dist_entre_nuevas_m) ==
    IF k > Len(pares) THEN est
    ELSE LET i == pares[k][1]
             j == pares[k][2]
             paso(e) ==
                 IF haversine_m(e[1][i][1], e[1][i][2], e[1][j][1], e[1][j][2])
                      < min_dist_entre_nuevas_m
                 THEN { << [e[1] EXCEPT ![i] = p], TRUE >> : p \in PuntosEn(box) }
                 ELSE { e }
         IN  RepairParesPrimero(UNION { paso(e) : e \in est }, pares, k + 1, box,
                                min_dist_entre_nuevas_m)

\* RepairPares without line 229: a redrawn point does not set changed
RECURSIVE RepairParesSinMarca(_, _, _, _, _)
RepairParesSinMarca(est, pares, k, box, min_dist_entre_nuevas_m) ==
    IF k > Len(pares) THEN est
    ELSE LET i == pares[k][1]
             j == pares[k][2]
             paso(e) ==
                 IF haversine_m(e[1][i][1], e[1][i][2], e[1][j][1], e[1][j][2])
                      < min_dist_entre_nuevas_m
                 THEN { << [e[1] EXCEPT ![j] = p], e[2] >> : p \in PuntosEn(box) }
                 ELSE { e }
         IN  RepairParesSinMarca(UNION { paso(e) : e \in est }, pares, k + 1, box,
                                 min_dist_entre_nuevas_m)

\* lines 220-229: the outcomes of the pass over the pairs, from the set
\* est of outcomes so far; the second point of a close pair is drawn anew
RECURSIVE RepairPares(_, _, _, _, _)
RepairPares(est, pares, k, box, min_dist_entre_nuevas_m) ==
    IF k > Len(pares) THEN est
    ELSE LET i == pares[k][1]
             j == pares[k][2]
             paso(e) ==
                 IF haversine_m(e[1][i][1], e[1][i][2], e[1][j][1], e[1][j][2])
                      < min_dist_entre_nuevas_m
                 THEN { << [e[1] EXCEPT ![j] = p], TRUE >> : p \in PuntosEn(box) }
                 ELSE { e }
         IN  RepairPares(UNION { paso(e) : e \in est }, pares, k + 1, box,
                         min_dist_entre_nuevas_m)

\* lines 202-229: the outcomes << out, changed >> of one iteration
RepairIteracion(out, camaras_existentes, box, min_dist_entre_nuevas_m, min_dist_a_existentes_m) ==
    RepairPares(RepairExistentes(out, camaras_existentes, box,
                                 min_dist_a_existentes_m),
                ParesDesde(1, 2, Len(out)), 1, box, min_dist_entre_nuevas_m)

\* the final clamp of line 234 left out
ClampIndOmitido(out, box) == out

\* line 234: every point clamped into the box
ClampInd(out, box) ==
    [ i \in 1..Len(out) |->
        << _clamp(out[i][1], box[1], box[2]), _clamp(out[i][2], box[3], box[4]) >> ]

\* lines 201-232: the individuals the loop can end with: activos are the
\* individuals an iteration can start from, fin those it has ended with
RECURSIVE RepairLoop(_, _, _, _, _, _, _)
RepairLoop(activos, fin, iters, camaras_existentes, box, min_dist_entre_nuevas_m, min_dist_a_existentes_m) ==
    IF iters = 0 \/ activos = { } THEN fin \cup activos
    ELSE LET res == UNION { RepairIteracion(o, camaras_existentes, box,
                                            min_dist_entre_nuevas_m,
                                            min_dist_a_existentes_m) :
                            o \in activos }
             sig == { e[1] : e \in { r \in res : r[2] } }
             fin2 == fin \cup { e[1] : e \in { r \in res : ~r[2] } }
         IN  \* the same iteration again changes nothing: the loop's
             \* outcomes are settled whatever remains of the budget
             IF sig = activos /\ fin2 = fin THEN fin \cup activos
             ELSE RepairLoop(sig, fin2, iters - 1, camaras_existentes, box,
                             min_dist_entre_nuevas_m, min_dist_a_existentes_m)

\* the individuals _repair_separacion can return for an argument drawn
\* from inds
_repair_separacion(inds, camaras_existentes, box, min_dist_entre_nuevas_m, min_dist_a_existentes_m, max_iters) ==
    { ClampInd(o, box) :
        o \in RepairLoop(inds, { }, Max(max_iters, 0), camaras_existentes, box,
                         min_dist_entre_nuevas_m, min_dist_a_existentes_m) }

----------------------------------------------------------------------------
(* generar_grid_puntos *)

\* lines 72-73 and 81-82: the step in whole cells.  A cell is the resolution
\* of a coordinate, so a positive step below it adds nothing to lat / lon
\* (in floating point lat + step_lat = lat once step_lat is under half the
\* spacing of the doubles around lat)
PasoCeldas(step_m) == step_m \div CellM

\* the points lo, lo + paso, ... that are <= hi, for paso >= 1
RECURSIVE Escalones(_, _, _)
Escalones(lo, hi, paso) ==
    IF lo > hi THEN << >> ELSE << lo >> \o Escalones(lo + paso, hi, paso)

\* lines 75-82: the lattice in row-major order, for a positive step
GridCompleto(cams, step_m, margin_pct) ==
    LET box == BboxAmpliado(cams, margin_pct)
        lats == Escalones(box[1], box[2], PasoCeldas(step_m))
        lons == Escalones(box[3], box[4], PasoCeldas(step_m))
    IN  [ k \in 1..(Len(lats) * Len(lons)) |->
            << lats[((k - 1) \div Len(lons)) + 1],
               lons[((k - 1) % Len(lons)) + 1] >> ]

\* random.sample(s, k): k elements of s at distinct positions, in any order
Muestras(q, k) ==
    { [ i \in 1..k |-> q[f[i]] ] :
        f \in { g \in [1..k -> 1..Len(q)] :
                  \A a \in 1..k : \A b \in 1..k : a # b => g[a] # g[b] } }

\* lines 84-87 without the subsampling: the whole lattice is returned
generar_grid_sin_tope(cams, step_m, margin_pct, max_points) ==
    IF cams = << >> THEN { << >> }
    ELSE { GridCompleto(cams, step_m, margin_pct) }

\* lines 56-57 and 84-87: the grids generar_grid_puntos can return when its
\* loops end; none when random.sample raises (negative max_points)
generar_grid_puntos(cams, step_m, margin_pct, max_points) ==
    IF cams = << >> THEN { << >> }
    ELSE LET pts == GridCompleto(cams, step_m, margin_pct)
         IN  IF max_points # 0 /\ Len(pts) > max_points
             THEN IF max_points < 0 THEN { } ELSE Muestras(pts, max_points)
             ELSE { pts }

\* lines 76-82: the loops are entered (the box is not empty) and lat / lon
\* never pass max_lat / max_lon, because the step does not advance them
GridNoTermina(cams, step_m, margin_pct) ==
    /\ cams # << >>
    /\ PasoCeldas(step_m) <= 0
    /\ LET box == BboxAmpliado(cams, margin_pct)
       IN  box[1] <= box[2] /\ box[3] <= box[4]

\* lines 84-85: random.sample(pts, k=max_points) raises ValueError for a
\* negative k, which is "truthy" and below every len(pts)
GridValueError(cams, step_m, margin_pct, max_points) ==
    /\ cams # << >>
    /\ ~GridNoTermina(cams, step_m, margin_pct)
    /\ max_points < 0

----------------------------------------------------------------------------
(* Operators of algoritmo_genetico_mejorar_cobertura *)

\* margin_factor=0.06 of the call at lines 382-387, in percent
MargenGridPct == 6

FitnessMc(ind, puntos, cams, c) ==
    _clamp(fitness_cobertura(puntos, cams, ind, c.radio_m,
                             c.penalizar_sobrecobertura, c.penalizar_cercania,
                             c.min_dist_entre_nuevas_m, c.min_dist_a_existentes_m,
                             c.peso_cercania),
           0, Pct100)

\* lines 440-454
FitnessesMc(pob, puntos, cams, c) ==
    [ i \in 1..Len(pob) |-> FitnessMc(pob[i], puntos, cams, c) ]

\* max(range(len(poblacion)), key=fitnesses): the first index of the maximum
IBest(fit) == CHOOSE i \in 1..Len(fit) :
                 /\ \A j \in 1..Len(fit) : fit[j] <= fit[i]
                 /\ \A j \in 1..(i - 1) : fit[j] < fit[i]

RepararSi(inds, c, cams, box) ==
    IF c.penalizar_cercania
    THEN _repair_separacion(inds, cams, box, c.min_dist_entre_nuevas_m,
                            c.min_dist_a_existentes_m, MaxItersDef)
    ELSE inds

\* lines 404-406
Semillas(c, box) == ClampInd(c.puntos_semilla, box)

\* _crear_individuo with take = len(semillas): every seed is taken, however
\* many points were requested
_crear_individuo_todas(c, cams, box) ==
    LET semillas == Semillas(c, box)
        bases == { << >> } \cup
                 ( IF semillas # << >>
                   THEN Muestras(semillas, Len(semillas))
                   ELSE { } )
        llenos == UNION { { b \o r : r \in [1..(c.n_camaras_nuevas - Len(b)) ->
                                               PuntosEn(box)] } : b \in bases }
    IN  RepararSi({ ClampInd(i, box) : i \in llenos }, c, cams, box)

\* lines 408-432: the individuals _crear_individuo can return
_crear_individuo(c, cams, box) ==
    LET semillas == Semillas(c, box)
        bases == { << >> } \cup
                 ( IF semillas # << >>
                   THEN Muestras(semillas, Min(Len(semillas), c.n_camaras_nuevas))
                   ELSE { } )
        llenos == UNION { { b \o r : r \in [1..(c.n_camaras_nuevas - Len(b)) ->
                                               PuntosEn(box)] } : b \in bases }
    IN  RepararSi({ ClampInd(i, box) : i \in llenos }, c, cams, box)

\* the children _cruzar_individuo_blx can return
_cruzar_individuo_blx(p1, p2, alpha_pct) ==
    LET n == Min(Len(p1), Len(p2))
    IN  Producto([ i \in 1..n |-> cruzar_blx_alpha(p1[i], p2[i], alpha_pct) ], n)

\* the results _mutar_individuo_gauss can return
_mutar_individuo_gauss(ind, box) ==
    Producto([ i \in 1..Len(ind) |-> mutar_gauss(ind[i], box) ], Len(ind))

\* lines 471-491: the children of two parents drawn from padres
HijosMc(pads, c, cams, box) ==
    LET cruzados == UNION { _cruzar_individuo_blx(p1, p2, c.alpha_pct) :
                            p1 \in pads, p2 \in pads }
        mutados == UNION { _mutar_individuo_gauss(h, box) : h \in cruzados }
    IN  RepararSi({ ClampInd(h, box) : h \in mutados }, c, cams, box)

\* lines 461-493: the populations one generation can produce
NuevasMc(pob, puntos, cams, c) ==
    LET fit == FitnessesMc(pob, puntos, cams, c)
        elites == Elites(pob, fit, c.elitismo)
        box == BboxAmpliado(cams, c.margin_pct)
        pools == { { pads[i] : i \in 1..Len(pads) } :
                     pads \in seleccion_torneo(pob, fit, c.k_torneo,
                                               c.tam_poblacion) }
    IN  UNION { { elites \o hijos :
                    hijos \in [1..(c.tam_poblacion - Len(elites)) ->
                                  HijosMc(pool, c, cams, box)] } :
                pool \in pools }

----------------------------------------------------------------------------
(* Specification SpecSel: seleccionar_espaciados on every scored, sorted    *)
(* population of at most MaxCand points                                     *)

SelCamaras == << <<0, 0>>, <<2, 2>> >>
SelPuntos == PuntosEn(_bbox(SelCamaras))
SelSeps == {0, 60, 120}

\* the variables of the other specifications, at rest
IdleSel ==
    /\ sel_pc = "idle" /\ sel_camaras = << >> /\ candidatos = << >>
    /\ min_sep_m = 0 /\ max_puntos = 0 /\ seleccionados = << >> /\ n_greedy = 0

IdlePc ==
    /\ pc_pc = "idle" /\ camaras_pc = << >> /\ cfg_pc = << >> /\ poblacion_pc = << >>
    /\ gen_pc = 0 /\ retorno_pc = << >> /\ max_ant = -1

IdleMc ==
    /\ pc_mc = "idle" /\ camaras_mc = << >> /\ cfg_mc = << >>
    /\ puntos_eval = << >> /\ poblacion_mc = << >> /\ best_ind = << >>
    /\ best_fit = 0 /\ gen_mc = 0 /\ retorno_mc = << >> /\ max_ant_mc = -1

IdleRep ==
    /\ rep_pc = "idle" /\ rep_in = << >> /\ rep_out = << >> /\ rep_iters = 0
    /\ rep_salida = ""

IdleFit ==
    /\ fit_pc = "idle" /\ fit_in = << >> /\ fit_out = 0

IdleAz ==
    /\ az_rng = 0 /\ az_hist = << >>

IdleRef ==
    /\ ref_pc = "idle" /\ ref_cfg = << >> /\ ref_heap = << >> /\ ref_pob = << >>
    /\ ref_best = 0 /\ ref_best_fit = 0 /\ ref_gen = 0 /\ ref_ret = << >>

IdleUsr ==
    /\ usr_unico = FALSE /\ usr_tabla = << >> /\ usr_req = << >>

InitSel ==
    /\ IdlePc /\ IdleMc /\ IdleRep /\ IdleFit /\ IdleAz /\ IdleRef /\ IdleUsr
    /\ sel_pc = "greedy"
    /\ sel_camaras = SelCamaras
    /\ \E pob \in SeqsUpTo(SelPuntos, MaxCand) :
          candidatos = Candidatos(pob, [i \in 1..Len(pob) |->
                                           FitnessDef(pob[i], SelCamaras)])
    /\ min_sep_m \in SelSeps
    /\ max_puntos \in 0..MaxCap
    /\ seleccionados = << >>
    /\ n_greedy = 0

SelGreedy ==
    /\ sel_pc = "greedy"
    /\ seleccionados' = GreedyPass(candidatos, 1, << >>, min_sep_m, max_puntos)
    /\ n_greedy' = Len(seleccionados')
    /\ sel_pc' = "backfill"
    /\ UNCHANGED << sel_camaras, candidatos, min_sep_m, max_puntos >>
    /\ UNCHANGED << vars_pc, vars_mc, vars_rep, vars_fit, vars_az, vars_ref, vars_usr >>

SelBackfill ==
    /\ sel_pc = "backfill"
    /\ seleccionados' = IF Len(seleccionados) < max_puntos
                        THEN Backfill(candidatos, 1, seleccionados, max_puntos)
                        ELSE seleccionados
    /\ sel_pc' = "done"
    /\ UNCHANGED << sel_camaras, candidatos, min_sep_m, max_puntos, n_greedy >>
    /\ UNCHANGED << vars_pc, vars_mc, vars_rep, vars_fit, vars_az, vars_ref, vars_usr >>

NextSel == SelGreedy \/ SelBackfill

SpecSel == InitSel /\ [][NextSel]_vars

----------------------------------------------------------------------------
(* algoritmo_genetico_puntos_ciegos                                         *)

CamarasPc == { << >>, << <<0, 0>>, <<4, 0>> >> }

BasePc ==
    [ tam_poblacion |-> MaxPob,
      generaciones |-> MaxGen,
      num_puntos_resultado |-> 3,
      min_separacion_m |-> 100,
      radio_cobertura_m |-> RadioCoberturaDef,
      elitismo |-> 1,
      k_torneo |-> 2,
      alpha_pct |-> 50,
      margin_pct |-> 0 ]

\* the base configuration with one argument changed, invalid values included
ConfigsPc ==
    { [BasePc EXCEPT !.tam_poblacion = v] : v \in (0 - 1)..MaxPob }
    \cup { [BasePc EXCEPT !.generaciones = v] : v \in (0 - 1)..MaxGen }
    \cup { [BasePc EXCEPT !.num_puntos_resultado = v] : v \in {0, 1} }
    \cup { [BasePc EXCEPT !.min_separacion_m = v] : v \in {0} }
    \cup { [BasePc EXCEPT !.radio_cobertura_m = v] : v \in {0 - 1} }
    \cup { [BasePc EXCEPT !.elitismo = v] : v \in {0, 2, MaxPob + 1} }
    \cup { [BasePc EXCEPT !.k_torneo = v] : v \in {0, 1} }
    \cup { [BasePc EXCEPT !.margin_pct = 25, !.tam_poblacion = 2] }

InitPcVars ==
    /\ pc_pc = "call"
    /\ camaras_pc \in CamarasPc
    /\ cfg_pc \in ConfigsPc
    /\ poblacion_pc = << >>
    /\ gen_pc = 0
    /\ retorno_pc = << >>
    /\ max_ant = -1

\* lines 281-282: no cameras
PcVacio ==
    /\ pc_pc = "call"
    /\ camaras_pc = << >>
    /\ retorno_pc' = << >>
    /\ pc_pc' = "done"
    /\ UNCHANGED << camaras_pc, cfg_pc, poblacion_pc, gen_pc, max_ant >>
    /\ UNCHANGED << vars_sel, vars_mc, vars_rep, vars_fit, vars_az, vars_ref, vars_usr >>

\* lines 284-302: the search box and the initial population
PcPoblacionInicial ==
    /\ pc_pc = "call"
    /\ camaras_pc # << >>
    /\ poblacion_pc' \in [1..cfg_pc.tam_poblacion ->
                             PuntosEn(BboxAmpliado(camaras_pc, cfg_pc.margin_pct))]
    /\ pc_pc' = "loop"
    /\ UNCHANGED << camaras_pc, cfg_pc, gen_pc, retorno_pc, max_ant >>
    /\ UNCHANGED << vars_sel, vars_mc, vars_rep, vars_fit, vars_az, vars_ref, vars_usr >>

\* PcGeneracion leaving the loop once the population has converged
PcGeneracionConParada ==
    /\ pc_pc = "loop"
    /\ gen_pc < cfg_pc.generaciones
    /\ cfg_pc.tam_poblacion >= 1 => Min(cfg_pc.k_torneo, Len(poblacion_pc)) >= 1
    /\ poblacion_pc' \in NuevasPc(poblacion_pc, camaras_pc, cfg_pc)
    /\ max_ant' = IF poblacion_pc = << >> THEN max_ant
                  ELSE MaxFit(FitnessesPc(poblacion_pc, camaras_pc, cfg_pc))
    /\ gen_pc' = IF \A i \in 1..Len(poblacion_pc) : poblacion_pc[i] = poblacion_pc[1]
                 THEN cfg_pc.generaciones ELSE gen_pc + 1
    /\ UNCHANGED << pc_pc, camaras_pc, cfg_pc, retorno_pc >>
    /\ UNCHANGED << vars_sel, vars_mc, vars_rep, vars_fit, vars_az, vars_ref, vars_usr >>

\* lines 304-342: one generation
PcGeneracion ==
    /\ pc_pc = "loop"
    /\ gen_pc < cfg_pc.generaciones
    /\ cfg_pc.tam_poblacion >= 1 => Min(cfg_pc.k_torneo, Len(poblacion_pc)) >= 1
    /\ poblacion_pc' \in NuevasPc(poblacion_pc, camaras_pc, cfg_pc)
    /\ max_ant' = IF poblacion_pc = << >> THEN max_ant
                  ELSE MaxFit(FitnessesPc(poblacion_pc, camaras_pc, cfg_pc))
    /\ gen_pc' = gen_pc + 1
    /\ UNCHANGED << pc_pc, camaras_pc, cfg_pc, retorno_pc >>
    /\ UNCHANGED << vars_sel, vars_mc, vars_rep, vars_fit, vars_az, vars_ref, vars_usr >>

\* lines 174-175: random.sample with a negative k, or max() of no contender,
\* raises ValueError
PcErrorTorneo ==
    /\ pc_pc = "loop"
    /\ gen_pc < cfg_pc.generaciones
    /\ cfg_pc.tam_poblacion >= 1
    /\ Min(cfg_pc.k_torneo, Len(poblacion_pc)) < 1
    /\ pc_pc' = "ValueError"
    /\ UNCHANGED << camaras_pc, cfg_pc, poblacion_pc, gen_pc, retorno_pc, max_ant >>
    /\ UNCHANGED << vars_sel, vars_mc, vars_rep, vars_fit, vars_az, vars_ref, vars_usr >>

\* lines 344-360: final evaluation, sort, diversity selection
PcFinal ==
    /\ pc_pc = "loop"
    /\ gen_pc >= cfg_pc.generaciones
    /\ retorno_pc' = seleccionar_espaciados(
                         Candidatos(poblacion_pc,
                                    FitnessesPc(poblacion_pc, camaras_pc, cfg_pc)),
                         cfg_pc.min_separacion_m, cfg_pc.num_puntos_resultado)
    /\ pc_pc' = "done"
    /\ UNCHANGED << camaras_pc, cfg_pc, poblacion_pc, gen_pc, max_ant >>
    /\ UNCHANGED << vars_sel, vars_mc, vars_rep, vars_fit, vars_az, vars_ref, vars_usr >>

NextPc ==
    \/ PcVacio
    \/ PcPoblacionInicial
    \/ PcGeneracion
    \/ PcErrorTorneo
    \/ PcFinal

----------------------------------------------------------------------------
(* algoritmo_genetico_mejorar_cobertura                                     *)

CamarasMc == { << >>, << <<0, 0>>, <<2, 0>> >> }

BaseMc ==
    [ n_camaras_nuevas |-> 2,
      radio_m |-> 40,
      \* an optional argument: << >> is None, << g >> is the grid g
      puntos_eval |-> << >>,
      step_grid_m |-> CellM,
      grid_max_points |-> 6000,
      tam_poblacion |-> MaxPobMc,
      generaciones |-> MaxGenMc,
      elitismo |-> 1,
      k_torneo |-> 2,
      alpha_pct |-> 50,
      margin_pct |-> 12,
      penalizar_sobrecobertura |-> TRUE,
      penalizar_cercania |-> TRUE,
      min_dist_entre_nuevas_m |-> 60,
      min_dist_a_existentes_m |-> 50,
      peso_cercania |-> 10 * PctUnit,
      puntos_semilla |-> << >> ]

\* the base configuration with one argument changed, invalid values included
ConfigsMc ==
    { [BaseMc EXCEPT !.tam_poblacion = v] : v \in 0..MaxPobMc }
    \cup { [BaseMc EXCEPT !.generaciones = v] : v \in 0..MaxGenMc }
    \cup { [BaseMc EXCEPT !.n_camaras_nuevas = v] : v \in {1} }
    \cup { [BaseMc EXCEPT !.step_grid_m = v] : v \in {0, CellM \div 2} }
    \cup { [BaseMc EXCEPT !.puntos_eval = v] : v \in { << << >> >> } }
    \cup { [BaseMc EXCEPT !.elitismo = v] : v \in {0, MaxPobMc + 1} }
    \cup { [BaseMc EXCEPT !.k_torneo = v] : v \in {0, 1} }
    \cup { [BaseMc EXCEPT !.penalizar_cercania = v] : v \in {FALSE} }
    \cup { [BaseMc EXCEPT !.min_dist_a_existentes_m = v] : v \in {0} }
    \cup { [BaseMc EXCEPT !.puntos_semilla = v] :
             v \in { << <<1, 0>> >>, << <<1, 0>>, <<0, 0>>, <<5, 5>> >> } }

InitMc ==
    /\ pc_mc = "call"
    /\ camaras_mc \in CamarasMc
    /\ cfg_mc \in ConfigsMc
    /\ puntos_eval = << >>
    /\ poblacion_mc = << >>
    /\ best_ind = << >>
    /\ best_fit = 0
    /\ gen_mc = 0
    /\ retorno_mc = << >>
    /\ max_ant_mc = -1

\* the result reporting the total coverage of the metrics as its fitness
ResultadoMcCobertura(nuevas, fit, met) ==
    [ camaras_nuevas |-> nuevas,
      fitness |-> IF met = << >> THEN fit ELSE met.cobertura_total,
      metricas |-> met ]

ResultadoMc(nuevas, fit, met) ==
    [ camaras_nuevas |-> nuevas, fitness |-> fit, metricas |-> met ]

\* McVacio returning the initial best_fit, -1.0, instead of 0.0
McVacioMenosUno ==
    /\ pc_mc = "call"
    /\ camaras_mc = << >>
    /\ retorno_mc' = ResultadoMc(<< >>, 0 - PctUnit, << >>)
    /\ pc_mc' = "done"
    /\ UNCHANGED << camaras_mc, cfg_mc, puntos_eval, poblacion_mc, best_ind,
                    best_fit, gen_mc, max_ant_mc >>
    /\ UNCHANGED << vars_sel, vars_pc, vars_rep, vars_fit, vars_az, vars_ref, vars_usr >>

\* lines 375-376: no cameras
McVacio ==
    /\ pc_mc = "call"
    /\ camaras_mc = << >>
    /\ retorno_mc' = ResultadoMc(<< >>, 0, << >>)
    /\ pc_mc' = "done"
    /\ UNCHANGED << camaras_mc, cfg_mc, puntos_eval, poblacion_mc, best_ind,
                    best_fit, gen_mc, max_ant_mc >>
    /\ UNCHANGED << vars_sel, vars_pc, vars_rep, vars_fit, vars_az, vars_ref, vars_usr >>

\* lines 381-387 with a step_grid_m that does not advance the grid loops:
\* generar_grid_puntos never returns
McGridNoTermina ==
    /\ pc_mc = "call"
    /\ cfg_mc.puntos_eval = << >>
    /\ GridNoTermina(camaras_mc, cfg_mc.step_grid_m, MargenGridPct)
    /\ pc_mc' = "grid_loop"
    /\ UNCHANGED << camaras_mc, cfg_mc, puntos_eval, poblacion_mc, best_ind,
                    best_fit, gen_mc, retorno_mc, max_ant_mc >>
    /\ UNCHANGED << vars_sel, vars_pc, vars_rep, vars_fit, vars_az, vars_ref, vars_usr >>

\* lines 378-437: grid, search box, seeds, initial population
McInicio ==
    /\ pc_mc = "call"
    /\ camaras_mc # << >>
    /\ cfg_mc.puntos_eval = << >> => ~GridNoTermina(camaras_mc, cfg_mc.step_grid_m, MargenGridPct)
    /\ \E g \in ( IF cfg_mc.puntos_eval = << >>
                   THEN generar_grid_puntos(camaras_mc, cfg_mc.step_grid_m,
                                            MargenGridPct, cfg_mc.grid_max_points)
                   ELSE { cfg_mc.puntos_eval[1] } ) :
          \* line 391: the cameras themselves when the grid is empty
          puntos_eval' = IF g = << >> THEN camaras_mc ELSE g
    /\ poblacion_mc' \in [1..cfg_mc.tam_poblacion ->
                             _crear_individuo(cfg_mc, camaras_mc,
                                 BboxAmpliado(camaras_mc, cfg_mc.margin_pct))]
    /\ best_ind' = << >>
    /\ best_fit' = 0 - PctUnit
    /\ pc_mc' = "loop"
    /\ UNCHANGED << camaras_mc, cfg_mc, gen_mc, retorno_mc, max_ant_mc >>
    /\ UNCHANGED << vars_sel, vars_pc, vars_rep, vars_fit, vars_az, vars_ref, vars_usr >>

\* lines 439-493: one generation
McGeneracion ==
    /\ pc_mc = "loop"
    /\ gen_mc < cfg_mc.generaciones
    /\ poblacion_mc # << >>
    /\ Min(cfg_mc.k_torneo, Len(poblacion_mc)) >= 1
    /\ LET fit == FitnessesMc(poblacion_mc, puntos_eval, camaras_mc, cfg_mc)
           i_best == IBest(fit)
       IN  /\ best_fit' = IF fit[i_best] > best_fit THEN fit[i_best] ELSE best_fit
           /\ best_ind' = IF fit[i_best] > best_fit THEN poblacion_mc[i_best]
                          ELSE best_ind
           /\ max_ant_mc' = fit[i_best]
    /\ poblacion_mc' \in NuevasMc(poblacion_mc, puntos_eval, camaras_mc, cfg_mc)
    /\ gen_mc' = gen_mc + 1
    /\ UNCHANGED << pc_mc, camaras_mc, cfg_mc, puntos_eval, retorno_mc >>
    /\ UNCHANGED << vars_sel, vars_pc, vars_rep, vars_fit, vars_az, vars_ref, vars_usr >>

\* line 456: max() of an empty range raises ValueError
McErrorMax ==
    /\ pc_mc = "loop"
    /\ gen_mc < cfg_mc.generaciones
    /\ poblacion_mc = << >>
    /\ pc_mc' = "ValueError"
    /\ UNCHANGED << camaras_mc, cfg_mc, puntos_eval, poblacion_mc, best_ind,
                    best_fit, gen_mc, retorno_mc, max_ant_mc >>
    /\ UNCHANGED << vars_sel, vars_pc, vars_rep, vars_fit, vars_az, vars_ref, vars_usr >>

\* lines 294-295: random.sample with a negative k, or max() of no contender,
\* raises ValueError; best_ind and best_fit were already updated
McErrorTorneo ==
    /\ pc_mc = "loop"
    /\ gen_mc < cfg_mc.generaciones
    /\ poblacion_mc # << >>
    /\ Min(cfg_mc.k_torneo, Len(poblacion_mc)) < 1
    /\ pc_mc' = "ValueError"
    /\ UNCHANGED << camaras_mc, cfg_mc, puntos_eval, poblacion_mc, best_ind,
                    best_fit, gen_mc, retorno_mc, max_ant_mc >>
    /\ UNCHANGED << vars_sel, vars_pc, vars_rep, vars_fit, vars_az, vars_ref, vars_usr >>

\* lines 495-502: the metrics of the best individual, and the result
McFinal ==
    /\ pc_mc = "loop"
    /\ gen_mc >= cfg_mc.generaciones
    /\ retorno_mc' = ResultadoMc(best_ind, best_fit,
                                 metricas_niveles_cobertura(
                                     puntos_eval, camaras_mc \o best_ind,
                                     cfg_mc.radio_m))
    /\ pc_mc' = "done"
    /\ UNCHANGED << camaras_mc, cfg_mc, puntos_eval, poblacion_mc, best_ind,
                    best_fit, gen_mc, max_ant_mc >>
    /\ UNCHANGED << vars_sel, vars_pc, vars_rep, vars_fit, vars_az, vars_ref, vars_usr >>

NextMc ==
    \/ McVacio
    \/ McGridNoTermina
    \/ McInicio
    \/ McGeneracion
    \/ McErrorMax
    \/ McErrorTorneo
    \/ McFinal

----------------------------------------------------------------------------
(* Specification Spec: one call of either genetic algorithm                 *)

Init ==
    /\ IdleSel /\ IdleRep /\ IdleFit /\ IdleAz /\ IdleRef /\ IdleUsr
    /\ \/ InitPcVars /\ IdleMc
       \/ InitMc /\ IdlePc

Next == NextPc \/ NextMc

Spec == Init /\ [][Next]_vars

----------------------------------------------------------------------------
(* Specification SpecRep: _repair_separacion on every individual of at most *)
(* MaxN points, inside or outside the box                                   *)

RepCamaras == << <<0, 0>>, <<2, 0>> >>
RepBox == _bbox(RepCamaras)
\* the box and one column outside it
RepPuntos == (RepBox[1]..(RepBox[2] + 1)) \X (RepBox[3]..RepBox[4])

InitRep ==
    /\ IdleSel /\ IdlePc /\ IdleMc /\ IdleFit /\ IdleAz /\ IdleRef /\ IdleUsr
    /\ rep_pc = "loop"
    /\ rep_in \in [ ind : SeqsUpTo(RepPuntos, MaxN),
                     camaras_existentes : { RepCamaras },
                     box : { RepBox },
                     min_dist_entre_nuevas_m : {0, 60, 120},
                     min_dist_a_existentes_m : {0, 50, 80},
                     max_iters : {0, 1, MaxItersRep} ]
    /\ rep_out = rep_in.ind
    /\ rep_iters = 0
    /\ rep_salida = ""

\* lines 201-232: one iteration of the loop
RepIteracion ==
    /\ rep_pc = "loop"
    /\ rep_iters < rep_in.max_iters
    /\ \E r \in RepairIteracion(rep_out, rep_in.camaras_existentes, rep_in.box,
                                 rep_in.min_dist_entre_nuevas_m,
                                 rep_in.min_dist_a_existentes_m) :
          /\ rep_out' = r[1]
          /\ rep_pc' = IF r[2] THEN "loop" ELSE "clamp"
          /\ rep_salida' = IF r[2] THEN "" ELSE "sin_cambio"
    /\ rep_iters' = rep_iters + 1
    /\ UNCHANGED rep_in
    /\ UNCHANGED << vars_sel, vars_pc, vars_mc, vars_fit, vars_az, vars_ref, vars_usr >>

\* line 201: range(max_iters) is exhausted
RepAgotado ==
    /\ rep_pc = "loop"
    /\ rep_iters >= rep_in.max_iters
    /\ rep_pc' = "clamp"
    /\ rep_salida' = "agotado"
    /\ UNCHANGED << rep_in, rep_out, rep_iters >>
    /\ UNCHANGED << vars_sel, vars_pc, vars_mc, vars_fit, vars_az, vars_ref, vars_usr >>

\* lines 234-235: clamp and return
RepClamp ==
    /\ rep_pc = "clamp"
    /\ rep_out' = ClampInd(rep_out, rep_in.box)
    /\ rep_pc' = "done"
    /\ UNCHANGED << rep_in, rep_iters, rep_salida >>
    /\ UNCHANGED << vars_sel, vars_pc, vars_mc, vars_fit, vars_az, vars_ref, vars_usr >>

NextRep == RepIteracion \/ RepAgotado \/ RepClamp

SpecRep == InitRep /\ [][NextRep]_vars

----------------------------------------------------------------------------
(* Specification SpecFit: the two fitness functions on bounded arguments    *)

FitCamaras ==
    { << >>, << <<0, 0>> >>, << <<0, 0>>, <<4, 0>> >>,
      << <<0, 0>>, <<4, 0>>, <<2, 1>> >> }
FitPuntos == ((0 - 1)..5) \X ((0 - 1)..1)
FitLinea == [ i \in 1..5 |-> << i - 1, 0 >> ]

ArgsPunto ==
    [ f : { "fitness_punto_completo" },
      punto : FitPuntos,
      camaras : FitCamaras,
      radio_cobertura_m : {0 - 1, 0, 80, 200},
      max_interes_m : {0, 100, 350},
      max_extrapolacion_m : {50, 900},
      k_vecinos : {0, 1, 4},
      borde_pct : {0, 10} ]

ArgsCobertura ==
    [ f : { "fitness_cobertura" },
      puntos_eval : { << >>, FitLinea },
      camaras_existentes : { << >>, << <<0, 0>>, <<4, 0>> >> },
      camaras_nuevas : SeqsUpTo({ FitLinea[i] : i \in 1..5 }, MaxN),
      radio_m : {0, 40, 120},
      penalizar_sobrecobertura : BOOLEAN,
      penalizar_cercania : BOOLEAN,
      min_dist_entre_nuevas_m : {0, 100, 180},
      min_dist_a_existentes_m : {0, 60},
      peso_cercania : {0, 10 * PctUnit, 1000 * PctUnit} ]

\* grids of 0, 3 and 5 points; up to MaxN + 1 cameras on the first three
ArgsMetricas ==
    [ f : { "metricas_niveles_cobertura" },
      puntos_eval : { << >>, SubSeq(FitLinea, 1, 3), FitLinea },
      camaras_totales : SeqsUpTo({ FitLinea[i] : i \in 1..3 }, MaxN + 1),
      radio_m : {0 - 1, 0, 60, 120} ]

\* no camera, one camera, two cameras at one place, a 2 x 1 and a 2 x 2
\* box; steps of 0, half a cell, one and two cells; max_points below, at
\* and above the size of the lattice
ArgsGrid ==
    [ f : { "generar_grid_puntos" },
      camaras : { << >>, << <<0, 0>> >>, << <<1, 1>>, <<1, 1>> >>,
                  << <<0, 0>>, <<2, 1>> >>, << <<0, 0>>, <<2, 2>> >> },
      step_m : {0 - CellM, 0, CellM \div 2, CellM, 2 * CellM},
      margin_pct : {0, 5, 50},
      max_points : {0 - 1, 0, 1, 2, 6000} ]

\* a crossover called on its own: two points, or two individuals whose
\* lengths may differ
ArgsCruce ==
    LET PuntosCruce == { <<0, 0>>, <<2, 1>>, <<1, 2>> }
        IndsCruce == { << >> } \cup { << p >> : p \in PuntosCruce }
                     \cup { << p, q >> : p \in PuntosCruce, q \in { <<0, 0>>, <<2, 1>> } }
    IN  [ f : { "cruzar_blx_alpha" }, p1 : PuntosCruce, p2 : PuntosCruce,
          alpha_pct : {0 - 100, 0, 50, 100} ]
        \cup [ f : { "_cruzar_individuo_blx" }, p1 : IndsCruce, p2 : IndsCruce,
               alpha_pct : {0 - 100, 0, 50} ]

\* main.py lines 368-383: the arguments of the two calls
SimStepM == 250
SimMargenPct == 5
SimMaxPoints == 1500
SimRadioM == 120

\* the Camara table: empty, one camera, cameras 500 m apart, and a third
\* between them; the proposed camera on, between and far from them
ArgsSimulada ==
    [ f : { "evaluar_camara_simulada" },
      camaras_db : { << >>, << <<0, 0>> >>, << <<0, 0>>, <<10, 0>> >>,
                     << <<0, 0>>, <<10, 0>>, <<5, 1>> >> },
      propuesta : { <<0, 0>>, <<3, 0>>, <<5, 0>>, <<8, 0>>, <<30, 0>> } ]

InitFit ==
    /\ IdleSel /\ IdlePc /\ IdleMc /\ IdleRep /\ IdleAz /\ IdleRef /\ IdleUsr
    /\ fit_pc = "call"
    /\ fit_in \in ArgsPunto \cup ArgsCobertura \cup ArgsMetricas \cup ArgsGrid
                \cup ArgsSimulada \cup ArgsCruce
    /\ fit_out = 0

FitPunto ==
    /\ fit_pc = "call"
    /\ fit_in.f = "fitness_punto_completo"
    /\ fit_out' = fitness_punto_completo(
                      fit_in.punto, fit_in.camaras, fit_in.radio_cobertura_m,
                      fit_in.max_interes_m, fit_in.max_extrapolacion_m,
                      fit_in.k_vecinos, fit_in.borde_pct)
    /\ fit_pc' = "done"
    /\ UNCHANGED fit_in
    /\ UNCHANGED << vars_sel, vars_pc, vars_mc, vars_rep, vars_az, vars_ref, vars_usr >>

FitCobertura ==
    /\ fit_pc = "call"
    /\ fit_in.f = "fitness_cobertura"
    /\ fit_out' = fitness_cobertura(
                      fit_in.puntos_eval, fit_in.camaras_existentes,
                      fit_in.camaras_nuevas, fit_in.radio_m,
                      fit_in.penalizar_sobrecobertura, fit_in.penalizar_cercania,
                      fit_in.min_dist_entre_nuevas_m,
                      fit_in.min_dist_a_existentes_m, fit_in.peso_cercania)
    /\ fit_pc' = "done"
    /\ UNCHANGED fit_in
    /\ UNCHANGED << vars_sel, vars_pc, vars_mc, vars_rep, vars_az, vars_ref, vars_usr >>

FitMetricas ==
    /\ fit_pc = "call"
    /\ fit_in.f = "metricas_niveles_cobertura"
    /\ fit_out' = metricas_niveles_cobertura(fit_in.puntos_eval,
                                             fit_in.camaras_totales,
                                             fit_in.radio_m)
    /\ fit_pc' = "done"
    /\ UNCHANGED fit_in
    /\ UNCHANGED << vars_sel, vars_pc, vars_mc, vars_rep, vars_az, vars_ref, vars_usr >>

\* round(x, 2) of a percentage, in hundredths of a percent: to the nearest,
\* a tie to the even one
Redondeo2(x) ==
    LET q == (x * 100) \div PctUnit
        r == (x * 100) % PctUnit
    IN  IF 2 * r > PctUnit \/ (2 * r = PctUnit /\ q % 2 = 1) THEN q + 1 ELSE q

\* main.py lines 357-393: coverage with the proposed camera and its gain
FitSimulada ==
    /\ fit_pc = "call"
    /\ fit_in.f = "evaluar_camara_simulada"
    /\ IF fit_in.camaras_db = << >>
       THEN fit_out' = [ coverage |-> 0, delta |-> 0 ]
       ELSE \E g \in generar_grid_puntos(fit_in.camaras_db, SimStepM,
                                         SimMargenPct, SimMaxPoints) :
              LET before == metricas_niveles_cobertura(
                                g, fit_in.camaras_db, SimRadioM).cobertura_total
                  after == metricas_niveles_cobertura(
                               g, fit_in.camaras_db \o << fit_in.propuesta >>,
                               SimRadioM).cobertura_total
              IN  fit_out' = [ coverage |-> Redondeo2(after),
                               delta |-> Redondeo2(after - before) ]
    /\ fit_pc' = "done"
    /\ UNCHANGED fit_in
    /\ UNCHANGED << vars_sel, vars_pc, vars_mc, vars_rep, vars_az, vars_ref, vars_usr >>

\* algoritmo_genetico.py lines 184-197
FitCruzar ==
    /\ fit_pc = "call"
    /\ fit_in.f = "cruzar_blx_alpha"
    /\ fit_out' \in cruzar_blx_alpha(fit_in.p1, fit_in.p2, fit_in.alpha_pct)
    /\ fit_pc' = "done"
    /\ UNCHANGED fit_in
    /\ UNCHANGED << vars_sel, vars_pc, vars_mc, vars_rep, vars_az, vars_ref, vars_usr >>

\* ga_cobertura.py lines 308-319
FitCruzarInd ==
    /\ fit_pc = "call"
    /\ fit_in.f = "_cruzar_individuo_blx"
    /\ fit_out' \in _cruzar_individuo_blx(fit_in.p1, fit_in.p2, fit_in.alpha_pct)
    /\ fit_pc' = "done"
    /\ UNCHANGED fit_in
    /\ UNCHANGED << vars_sel, vars_pc, vars_mc, vars_rep, vars_az, vars_ref, vars_usr >>

\* lines 45-87 returning: [] or the (sub)sampled lattice
FitGrid ==
    /\ fit_pc = "call"
    /\ fit_in.f = "generar_grid_puntos"
    /\ ~GridNoTermina(fit_in.camaras, fit_in.step_m, fit_in.margin_pct)
    /\ fit_out' \in generar_grid_puntos(fit_in.camaras, fit_in.step_m,
                                        fit_in.margin_pct, fit_in.max_points)
    /\ fit_pc' = "done"
    /\ UNCHANGED fit_in
    /\ UNCHANGED << vars_sel, vars_pc, vars_mc, vars_rep, vars_az, vars_ref, vars_usr >>

\* lines 76-82 with a step that does not advance: the call stays in its
\* loops and returns nothing
FitGridNoTermina ==
    /\ fit_pc = "call"
    /\ fit_in.f = "generar_grid_puntos"
    /\ GridNoTermina(fit_in.camaras, fit_in.step_m, fit_in.margin_pct)
    /\ fit_pc' = "grid_loop"
    /\ UNCHANGED << fit_in, fit_out >>
    /\ UNCHANGED << vars_sel, vars_pc, vars_mc, vars_rep, vars_az, vars_ref, vars_usr >>

\* lines 84-85 with a negative max_points
FitGridError ==
    /\ fit_pc = "call"
    /\ fit_in.f = "generar_grid_puntos"
    /\ GridValueError(fit_in.camaras, fit_in.step_m, fit_in.margin_pct,
                      fit_in.max_points)
    /\ fit_pc' = "ValueError"
    /\ UNCHANGED << fit_in, fit_out >>
    /\ UNCHANGED << vars_sel, vars_pc, vars_mc, vars_rep, vars_az, vars_ref, vars_usr >>

NextFit ==
    \/ FitPunto
    \/ FitCobertura
    \/ FitMetricas
    \/ FitGrid
    \/ FitGridNoTermina
    \/ FitGridError
    \/ FitSimulada
    \/ FitCruzar
    \/ FitCruzarInd

SpecFit == InitFit /\ [][NextFit]_vars

----------------------------------------------------------------------------
(* Specification SpecAzar: seleccion_torneo called several times in one     *)
(* process.  The functions take no generator: every draw goes to the one    *)
(* generator of the module random (import random, line 5), seeded by the    *)
(* interpreter at import and advanced by each draw.                         *)

\* the generator after one draw: a fixed function of its state
SiguienteAzar(s) == (5 * s + 3) % AzMod

\* q without its element at pos
SinPos(q, pos) == [ i \in 1..(Len(q) - 1) |-> IF i < pos THEN q[i] ELSE q[i + 1] ]

\* MuestraCon drawing with replacement: q is not shortened
RECURSIVE MuestraConRepeticion(_, _, _)
MuestraConRepeticion(q, k, s) ==
    IF k <= 0 \/ q = << >> THEN << << >>, s >>
    ELSE LET pos == (s % Len(q)) + 1
             r == MuestraConRepeticion(q, k - 1, SiguienteAzar(s))
         IN  << << q[pos] >> \o r[1], r[2] >>

\* random.sample(q, k) on the generator state s: the sample and the state
\* left behind
RECURSIVE MuestraCon(_, _, _)
MuestraCon(q, k, s) ==
    IF k <= 0 \/ q = << >> THEN << << >>, s >>
    ELSE LET pos == (s % Len(q)) + 1
             r == MuestraCon(SinPos(q, pos), k - 1, SiguienteAzar(s))
         IN  << << q[pos] >> \o r[1], r[2] >>

\* max(contendientes, key=lambda i: fitnesses[i]): the first of the best
MejorDe(cont, fit) ==
    cont[CHOOSE i \in 1..Len(cont) :
           /\ \A j \in 1..Len(cont) : fit[cont[j]] <= fit[cont[i]]
           /\ \A j \in 1..(i - 1) : fit[cont[j]] < fit[cont[i]]]

\* lines 170-178 on the generator state s: the n winners and the state left
\* behind (k_torneo >= 1 and a population that is not empty)
RECURSIVE TorneoCon(_, _, _, _, _)
TorneoCon(pob, fit, k_torneo, n, s) ==
    IF n <= 0 THEN << << >>, s >>
    ELSE LET idxs == [ i \in 1..Len(pob) |-> i ]
             m == MuestraCon(idxs, Min(k_torneo, Len(idxs)), s)
             r == TorneoCon(pob, fit, k_torneo, n - 1, m[2])
         IN  << << pob[MejorDe(m[1], fit)] >> \o r[1], r[2] >>

\* populations of two and three points, every fitness vector over two
\* values, tournaments of one to three, two parents asked for
AzPoblaciones == { [ i \in 1..m |-> << i - 1, 0 >> ] : m \in 2..3 }
ArgsTorneo ==
    UNION { [ f : { "seleccion_torneo" },
              poblacion : { pob },
              fitnesses : [1..Len(pob) -> {0, FitOne}],
              k_torneo : 1..3,
              n : { 2 } ] : pob \in AzPoblaciones }

\* _seleccion_torneo: a population of two individuals of two points each,
\* one parent asked for
ArgsTorneoMc ==
    [ f : { "_seleccion_torneo" },
      poblacion : { << << <<0, 0>>, <<1, 0>> >>, << <<2, 0>>, <<2, 0>> >> >> },
      fitnesses : [1..2 -> {0, PctUnit}],
      k_torneo : 1..2,
      n : { 1 } ]

\* the interpreter seeds the generator from the operating system
InitAzar ==
    /\ IdleSel /\ IdlePc /\ IdleMc /\ IdleRep /\ IdleFit /\ IdleRef /\ IdleUsr
    /\ az_rng \in 0..(AzMod - 1)
    /\ az_hist = << >>

\* lines 161-178: one call, drawing from the generator of the module
AzTorneo ==
    /\ Len(az_hist) < MaxLlamadas
    /\ \E a \in ArgsTorneo :
          LET r == TorneoCon(a.poblacion, a.fitnesses, a.k_torneo, a.n, az_rng)
          IN  /\ az_hist' = Append(az_hist, [ args |-> a, resultado |-> r[1] ])
              /\ az_rng' = r[2]
    /\ UNCHANGED << vars_sel, vars_pc, vars_mc, vars_rep, vars_fit, vars_ref, vars_usr >>

\* ga_cobertura.py lines 281-298: the same loop on individuals
AzTorneoMc ==
    /\ Len(az_hist) < MaxLlamadas
    /\ \E a \in ArgsTorneoMc :
          LET r == TorneoCon(a.poblacion, a.fitnesses, a.k_torneo, a.n, az_rng)
          IN  /\ az_hist' = Append(az_hist, [ args |-> a, resultado |-> r[1] ])
              /\ az_rng' = r[2]
    /\ UNCHANGED << vars_sel, vars_pc, vars_mc, vars_rep, vars_fit, vars_ref, vars_usr >>

NextAzar == AzTorneo \/ AzTorneoMc

SpecAzar == InitAzar /\ [][NextAzar]_vars

----------------------------------------------------------------------------
(* Specification SpecRef: algoritmo_genetico_mejorar_cobertura with its     *)
(* lists as objects.  An individual is a Python list: poblacion, elites,    *)
(* padres and best_ind hold references to lists, and a list that a function *)
(* changed in place would change for every holder of it.                    *)

RefCamaras == << <<0, 0>>, <<2, 0>> >>
RefGrid == GridCompleto(RefCamaras, BaseMc.step_grid_m, MargenGridPct)
ConfigsRef ==
    { BaseMc, [BaseMc EXCEPT !.elitismo = MaxPobMc],
      [BaseMc EXCEPT !.penalizar_cercania = FALSE] }

\* a new list with the value v: << the objects, its identity >>
Alojar(heap, v) ==
    LET NuevoId == IF DOMAIN heap = { } THEN 1
                   ELSE (CHOOSE m \in DOMAIN heap : \A x \in DOMAIN heap : x <= m) + 1
    IN  << heap @@ (NuevoId :> v), NuevoId >>

\* the objects still referenced
Restringe(heap, ids) == [ id \in (DOMAIN heap) \cap ids |-> heap[id] ]

\* _cruzar_individuo_blx writing the child into the list of p1
CruzarRefEnSitio(heap, p1, p2, alpha_pct) ==
    { << [heap EXCEPT ![p1] = v], p1 >> :
        v \in _cruzar_individuo_blx(heap[p1], heap[p2], alpha_pct) }

\* ga_cobertura.py lines 308-319: `hijo = []` and hijo.append
CruzarRef(heap, p1, p2, alpha_pct) ==
    { Alojar(heap, v) : v \in _cruzar_individuo_blx(heap[p1], heap[p2], alpha_pct) }

\* lines 322-338: `out = []` and out.append
MutarRef(heap, h, box) ==
    { Alojar(heap, v) : v \in _mutar_individuo_gauss(heap[h], box) }

\* lines 481-489 and 199, 234: `out = list(ind)`, and the comprehension
\* of the return
RepararRef(heap, h, c, cams, box) ==
    IF c.penalizar_cercania
    THEN { Alojar(heap, v) : v \in RepararSi({ heap[h] }, c, cams, box) }
    ELSE { << heap, h >> }

\* lines 471-491: one child of the parents p1 and p2; a temporary list
\* nobody references any more is freed
HijoRef(heap, p1, p2, c, cams, box) ==
    LET Suelta(r) == << Restringe(r[1], (DOMAIN heap) \cup { r[2] }), r[2] >>
        \* line 479: a list comprehension
        ClampRef(r) == Alojar(r[1], ClampInd(r[1][r[2]], box))
        cruzados == CruzarRef(heap, p1, p2, c.alpha_pct)
        mutados == UNION { { Suelta(m) : m \in MutarRef(a[1], a[2], box) } :
                            a \in cruzados }
        acotados == { Suelta(ClampRef(b)) : b \in mutados }
    IN  UNION { { Suelta(x) : x \in RepararRef(a[1], a[2], c, cams, box) } :
                  a \in acotados }

\* lines 470-491: k children of parents drawn from pads, one after another
RECURSIVE HijosRef(_, _, _, _, _, _)
HijosRef(heap, k, pads, c, cams, box) ==
    IF k <= 0 THEN { << heap, << >> >> }
    ELSE UNION { UNION { { << r[1], << h[2] >> \o r[2] >> :
                             r \in HijosRef(h[1], k - 1, pads, c, cams, box) } :
                         h \in HijoRef(heap, p1, p2, c, cams, box) } :
                 p1 \in pads, p2 \in pads }

\* lines 393-437: the initial population, each individual a list of its own
InitRef ==
    /\ IdleSel /\ IdlePc /\ IdleMc /\ IdleRep /\ IdleFit /\ IdleAz /\ IdleUsr
    /\ ref_pc = "loop"
    /\ ref_cfg \in ConfigsRef
    /\ ref_heap \in [1..ref_cfg.tam_poblacion ->
                        _crear_individuo(ref_cfg, RefCamaras, BboxAmpliado(RefCamaras, ref_cfg.margin_pct))]
    /\ ref_pob = [ i \in 1..ref_cfg.tam_poblacion |-> i ]
    /\ ref_best = 0
    /\ ref_best_fit = 0 - PctUnit
    /\ ref_gen = 0
    /\ ref_ret = << >>

\* lines 439-493: one generation; best_ind, the elites and the parents are
\* the lists of the population themselves
RefGeneracion ==
    /\ ref_pc = "loop"
    /\ ref_gen < ref_cfg.generaciones
    /\ LET fit == FitnessesMc([ i \in 1..Len(ref_pob) |-> ref_heap[ref_pob[i]] ],
                              RefGrid, RefCamaras, ref_cfg)
           i_best == IBest(fit)
           mejor == IF fit[i_best] > ref_best_fit THEN ref_pob[i_best] ELSE ref_best
           elites == Elites(ref_pob, fit, ref_cfg.elitismo)
           pools == { { pads[i] : i \in 1..Len(pads) } :
                        pads \in seleccion_torneo(ref_pob, fit, ref_cfg.k_torneo,
                                                  ref_cfg.tam_poblacion) }
       IN  /\ ref_best_fit' = IF fit[i_best] > ref_best_fit THEN fit[i_best]
                              ELSE ref_best_fit
           /\ ref_best' = mejor
           /\ \E pool \in pools :
                 \E r \in HijosRef(ref_heap, ref_cfg.tam_poblacion - Len(elites),
                                   pool, ref_cfg, RefCamaras, BboxAmpliado(RefCamaras, ref_cfg.margin_pct)) :
                     /\ ref_pob' = elites \o r[2]
                     /\ ref_heap' = Restringe(r[1],
                                        { mejor } \cup { (elites \o r[2])[i] :
                                            i \in 1..Len(elites \o r[2]) })
    /\ ref_gen' = ref_gen + 1
    /\ UNCHANGED << ref_pc, ref_cfg, ref_ret >>
    /\ UNCHANGED << vars_sel, vars_pc, vars_mc, vars_rep, vars_fit, vars_az, vars_usr >>

\* lines 495-502: the result holds a copy of the points of best_ind
RefFinal ==
    /\ ref_pc = "loop"
    /\ ref_gen >= ref_cfg.generaciones
    /\ ref_ret' = [ camaras_nuevas |-> IF ref_best = 0 THEN << >> ELSE ref_heap[ref_best],
                    fitness |-> ref_best_fit ]
    /\ ref_pc' = "done"
    /\ UNCHANGED << ref_cfg, ref_heap, ref_pob, ref_best, ref_best_fit, ref_gen >>
    /\ UNCHANGED << vars_sel, vars_pc, vars_mc, vars_rep, vars_fit, vars_az, vars_usr >>

NextRef == RefGeneracion \/ RefFinal

SpecRef == InitRef /\ [][NextRef]_vars

----------------------------------------------------------------------------
(* Specification SpecUsr: concurrent registrar_usuario requests.  The       *)
(* endpoint is a plain def, which the framework runs in a thread pool: the  *)
(* requests interleave between the existence query and the commit.          *)

\* the number of requests in flight
MaxReq == 2

\* str.strip: no whitespace at either end
RECURSIVE Strip(_)
Strip(e) ==
    IF e = << >> THEN e
    ELSE IF Head(e) = " " THEN Strip(Tail(e))
    ELSE IF e[Len(e)] = " " THEN Strip(SubSeq(e, 1, Len(e) - 1))
    ELSE e

\* main.py line 231: datos.email.lower().strip()
EmailNormalizado(e) ==
    LET \* str.lower, character by character
        Lower(x) == [ i \in 1..Len(x) |-> IF x[i] = "A" THEN "a" ELSE x[i] ]
    IN  Strip(Lower(e))

\* is the email in the table usuarios?
Existente(tabla, email) == \E i \in 1..Len(tabla) : tabla[i] = email

\* the table usuarios, created with the column email of main.py lines 93-101
\* (no unique constraint) or with that of database.py lines 71-79
\* (unique=True): create_all leaves an existing table as it is
InitUsr ==
    /\ IdleSel /\ IdlePc /\ IdleMc /\ IdleRep /\ IdleFit /\ IdleAz /\ IdleRef
    /\ usr_unico \in BOOLEAN
    /\ usr_tabla \in { << >>, << << "a" >> >> }
    /\ usr_req \in [1..MaxReq -> [ email : { << "a" >>, << "A" >>, << " ", "a" >>,
                                               << "b" >> },
                                     pc : { "inicio" },
                                     norm : { << >> }, resp : { 0 } ]]

\* lines 231-233, the query finding no row
UsrConsulta(r) ==
    /\ usr_req[r].pc = "inicio"
    /\ ~Existente(usr_tabla, EmailNormalizado(usr_req[r].email))
    /\ usr_req' = [usr_req EXCEPT ![r].pc = "consultado",
                                   ![r].norm = EmailNormalizado(usr_req[r].email)]
    /\ UNCHANGED << usr_unico, usr_tabla >>
    /\ UNCHANGED << vars_sel, vars_pc, vars_mc, vars_rep, vars_fit, vars_az, vars_ref >>

\* lines 231-235, the query finding a row: HTTP 400
UsrRechaza(r) ==
    /\ usr_req[r].pc = "inicio"
    /\ Existente(usr_tabla, EmailNormalizado(usr_req[r].email))
    /\ usr_req' = [usr_req EXCEPT ![r].pc = "fin",
                                   ![r].norm = EmailNormalizado(usr_req[r].email),
                                   ![r].resp = 400]
    /\ UNCHANGED << usr_unico, usr_tabla >>
    /\ UNCHANGED << vars_sel, vars_pc, vars_mc, vars_rep, vars_fit, vars_az, vars_ref >>

\* lines 237-248 and 253: the row is added and committed, HTTP 201
UsrAlta(r) ==
    /\ usr_req[r].pc = "consultado"
    /\ ~(usr_unico /\ Existente(usr_tabla, usr_req[r].norm))
    /\ usr_tabla' = Append(usr_tabla, usr_req[r].norm)
    /\ usr_req' = [usr_req EXCEPT ![r].pc = "fin", ![r].resp = 201]
    /\ UNCHANGED usr_unico
    /\ UNCHANGED << vars_sel, vars_pc, vars_mc, vars_rep, vars_fit, vars_az, vars_ref >>

\* lines 249-251: the commit fails on the unique constraint, rollback and
\* HTTP 500
UsrErrorBD(r) ==
    /\ usr_req[r].pc = "consultado"
    /\ usr_unico
    /\ Existente(usr_tabla, usr_req[r].norm)
    /\ usr_req' = [usr_req EXCEPT ![r].pc = "fin", ![r].resp = 500]
    /\ UNCHANGED << usr_unico, usr_tabla >>
    /\ UNCHANGED << vars_sel, vars_pc, vars_mc, vars_rep, vars_fit, vars_az, vars_ref >>

NextUsr ==
    \E r \in 1..MaxReq :
        \/ UsrConsulta(r)
        \/ UsrRechaza(r)
        \/ UsrAlta(r)
        \/ UsrErrorBD(r)

SpecUsr == InitUsr /\ [][NextUsr]_vars

----------------------------------------------------------------------------
(* Claims *)

\* the configuration the coverage GA was called with is valid
ValidaMc ==
    /\ camaras_mc # << >>
    /\ cfg_mc.tam_poblacion >= 1
    /\ cfg_mc.generaciones >= 1
    /\ cfg_mc.n_camaras_nuevas >= 1

\* C1: with cameras and a valid configuration, every individual of every
\* population of algoritmo_genetico_mejorar_cobertura has exactly
\* n_camaras_nuevas points, and so has the returned camaras_nuevas.
C1_ExactamenteN ==
    (pc_mc \in {"loop", "done", "ValueError"} /\ ValidaMc) =>
        /\ \A i \in 1..Len(poblacion_mc) :
              Len(poblacion_mc[i]) = cfg_mc.n_camaras_nuevas
        /\ pc_mc = "done" =>
              Len(retorno_mc.camaras_nuevas) = cfg_mc.n_camaras_nuevas

\* C1 witness: a run seeded with more seeds than requested points returned
\* after its generations
C1_Witness ==
    /\ pc_mc = "done"
    /\ ValidaMc
    /\ Len(cfg_mc.puntos_semilla) > cfg_mc.n_camaras_nuevas
    /\ gen_mc = MaxGenMc
    /\ Len(retorno_mc.camaras_nuevas) = cfg_mc.n_camaras_nuevas

\* C2: with no cameras both algorithms return their empty result at once:
\* no population, no generation, no error, whatever the other arguments.
C2_VacioCortocircuita ==
    /\ (pc_pc # "idle" /\ camaras_pc = << >>) =>
          /\ pc_pc \in {"call", "done"}
          /\ poblacion_pc = << >>
          /\ gen_pc = 0
          /\ pc_pc = "done" => retorno_pc = << >>
    /\ (pc_mc # "idle" /\ camaras_mc = << >>) =>
          /\ pc_mc \in {"call", "done"}
          /\ poblacion_mc = << >>
          /\ gen_mc = 0
          /\ pc_mc = "done" =>
                retorno_mc = [ camaras_nuevas |-> << >>, fitness |-> 0,
                               metricas |-> << >> ]

\* C2 witness: the coverage GA returned for no cameras and a grid spacing
\* of zero
C2_Witness ==
    /\ pc_mc = "done"
    /\ camaras_mc = << >>
    /\ cfg_mc.step_grid_m = 0
    /\ retorno_mc.camaras_nuevas = << >>

InvalidaPc ==
    \/ cfg_pc.tam_poblacion <= 0
    \/ cfg_pc.generaciones <= 0
    \/ cfg_pc.radio_cobertura_m < 0
    \/ cfg_pc.min_separacion_m < 0

InvalidaMc ==
    \/ cfg_mc.tam_poblacion <= 0
    \/ cfg_mc.generaciones <= 0
    \/ cfg_mc.step_grid_m <= 0
    \/ cfg_mc.radio_m < 0
    \/ cfg_mc.min_dist_entre_nuevas_m < 0
    \/ cfg_mc.min_dist_a_existentes_m < 0

\* C3 (as claimed): a call with cameras and an invalid configuration is
\* rejected at once: it creates no population, runs no generation and no
\* grid loop, returns no result and raises no later error.
C3_InvalidaRechazada ==
    /\ (pc_pc # "idle" /\ camaras_pc # << >> /\ InvalidaPc) =>
          pc_pc \notin {"loop", "done", "ValueError"}
    /\ (pc_mc # "idle" /\ camaras_mc # << >> /\ InvalidaMc) =>
          pc_mc \notin {"grid_loop", "loop", "done", "ValueError"}

Separados(sel, n, min_sep) ==
    \A i \in 1..n : \A j \in 1..n :
        i # j => haversine_m(sel[i][1], sel[i][2], sel[j][1], sel[j][2]) >= min_sep

\* C4 (as claimed): seleccionar_espaciados returns at least
\* min(max_puntos, number of candidates) elements.
C4_AlMenosMinCapTotal ==
    sel_pc = "done" => Len(seleccionados) >= Min(max_puntos, Len(candidatos))

\* C5 (as claimed): the list algoritmo_genetico_puntos_ciegos returns has at
\* most num_puntos_resultado elements and non-increasing fitness.
C5_TopeYOrden ==
    (pc_pc = "done" /\ camaras_pc # << >>) =>
        /\ Len(retorno_pc) <= cfg_pc.num_puntos_resultado
        /\ \A i \in 1..(Len(retorno_pc) - 1) :
              retorno_pc[i][3] >= retorno_pc[i + 1][3]

\* C6: every element accepted by the greedy pass is at least min_sep_m from
\* every element accepted before it, and when the greedy pass alone fills
\* the result every pair of distinct positions of the result is separated.
C6_GreedySeparados ==
    /\ sel_pc \in {"backfill", "done"} =>
          /\ n_greedy <= Len(seleccionados)
          /\ Separados(seleccionados, n_greedy, min_sep_m)
    /\ (sel_pc = "done" /\ n_greedy >= max_puntos) =>
          /\ Len(seleccionados) = n_greedy
          /\ Separados(seleccionados, Len(seleccionados), min_sep_m)

\* C6 witness: the greedy pass filled a result of two points after
\* skipping a candidate that was too close
C6_Witness ==
    /\ sel_pc = "done"
    /\ min_sep_m > 0
    /\ max_puntos = 2
    /\ n_greedy = 2
    /\ Len(candidatos) = 3
    /\ seleccionados = << candidatos[1], candidatos[3] >>

\* the population of a later generation is at least as fit as the one before
C7_MaxNoDecrece ==
    /\ (pc_pc \in {"loop", "done", "ValueError"} /\ gen_pc >= 1
           /\ poblacion_pc # << >>) =>
          MaxFit(FitnessesPc(poblacion_pc, camaras_pc, cfg_pc)) >= max_ant
    /\ (pc_mc \in {"loop", "done", "ValueError"} /\ gen_mc >= 1) =>
          MaxFit(FitnessesMc(poblacion_mc, puntos_eval, camaras_mc, cfg_mc))
              >= max_ant_mc

\* C7: in both genetic algorithms the maximum fitness of the population of
\* generation i+1 is at least that of generation i, and in the coverage GA
\* best_fit never decreases from one generation to the next.
C7_Monotonia ==
    /\ []C7_MaxNoDecrece
    /\ [][pc_mc = "loop" => best_fit' >= best_fit]_vars

\* C7 witness: the second generation of the coverage GA produced a
\* population strictly fitter than the one it replaced
C7_Witness ==
    /\ pc_mc = "loop"
    /\ gen_mc >= 2
    /\ best_fit = max_ant_mc
    /\ MaxFit(FitnessesMc(poblacion_mc, puntos_eval, camaras_mc, cfg_mc))
          > max_ant_mc

\* C8 (as claimed): the fitness algoritmo_genetico_mejorar_cobertura returns
\* is at least the fitness of every individual of every population of the
\* run, the final population included.
C8_MejorDeTodas ==
    (pc_mc = "done" /\ ValidaMc) =>
        \A i \in 1..Len(poblacion_mc) :
            FitnessMc(poblacion_mc[i], puntos_eval, camaras_mc, cfg_mc)
                <= retorno_mc.fitness

EnCaja(p, box) ==
    /\ box[1] <= p[1] /\ p[1] <= box[2]
    /\ box[3] <= p[2] /\ p[2] <= box[4]

\* the bounds of a call of _repair_separacion, at every step of it
C9_Acotado ==
    rep_pc # "idle" =>
        /\ rep_iters <= Max(rep_in.max_iters, 0)
        /\ Len(rep_out) = Len(rep_in.ind)
        /\ rep_pc = "done" =>
              \A i \in 1..Len(rep_out) : EnCaja(rep_out[i], rep_in.box)
        \* the call is never stuck before it returns: an iteration that is
        \* due has an outcome
        /\ rep_pc \in {"loop", "clamp", "done"}
        /\ (rep_pc = "loop" /\ rep_iters < rep_in.max_iters) =>
              RepairIteracion(rep_out, rep_in.camaras_existentes, rep_in.box,
                              rep_in.min_dist_entre_nuevas_m,
                              rep_in.min_dist_a_existentes_m) # { }

\* what is left of the call: iterations of the budget, the clamp, the return
C9_Resto ==
    CASE rep_pc = "loop" -> 2 + Max(rep_in.max_iters, 0) - rep_iters
      [] rep_pc = "clamp" -> 1
      [] OTHER -> 0

\* C9: _repair_separacion runs at most max_iters iterations of its loop and
\* then returns (every step leaves less of the call to do, and no step is
\* stuck); what it returns has the length of the input and every point
\* inside the box, whether or not the spacing constraints are satisfied.
C9_RepairTermina ==
    /\ []C9_Acotado
    /\ [][C9_Resto' < C9_Resto /\ C9_Resto' >= 0]_vars

\* C9 witness: the budget ran out with the individual still changing, one
\* input point lay outside the box, and the call returned
C9_Witness ==
    /\ rep_pc = "done"
    /\ rep_salida = "agotado"
    /\ rep_iters = MaxItersRep
    /\ Len(rep_out) = MaxN
    /\ \E i \in 1..Len(rep_in.ind) : ~EnCaja(rep_in.ind[i], rep_in.box)
    /\ \E i \in 1..Len(rep_out) :
          MuyCercaDeExistente(rep_out[i], rep_in.camaras_existentes,
                              rep_in.min_dist_a_existentes_m)

\* C10: fitness_punto_completo is in [0, 1], is 0 for no cameras and at most
\* 0.05 when the nearest camera is within the coverage radius;
\* fitness_cobertura is in [0, 100].
C10_Rangos ==
    fit_pc = "done" =>
        /\ fit_in.f = "fitness_punto_completo" =>
             /\ 0 <= fit_out /\ fit_out <= FitOne
             /\ fit_in.camaras = << >> => fit_out = 0
             /\ ( /\ fit_in.camaras # << >>
                  /\ _dist_min_a_camaras(fit_in.punto[1], fit_in.punto[2],
                                         fit_in.camaras)
                        <= fit_in.radio_cobertura_m ) =>
                   fit_out <= CincoPorCiento
        /\ fit_in.f = "fitness_cobertura" =>
             0 <= fit_out /\ fit_out <= Pct100

\* C10 witness: fitness_cobertura returned 0 for a placement whose
\* penalties exceed its coverage
C10_Witness ==
    /\ fit_pc = "done"
    /\ fit_in.f = "fitness_cobertura"
    /\ fit_in.penalizar_cercania
    /\ fit_in.puntos_eval # << >>
    /\ Len(fit_in.camaras_nuevas) = MaxN
    /\ ScoreCobertura(fit_in.puntos_eval, fit_in.camaras_existentes,
                      fit_in.camaras_nuevas, fit_in.radio_m,
                      fit_in.penalizar_sobrecobertura, fit_in.penalizar_cercania,
                      fit_in.min_dist_entre_nuevas_m,
                      fit_in.min_dist_a_existentes_m, fit_in.peso_cercania) < 0
    /\ fit_out = 0

\* C11: metricas_niveles_cobertura puts every grid point in exactly one of
\* the four classes: for a non-empty grid the four counts sum to the grid
\* size, the four percentages sum to 100 and cobertura_total is
\* nivel_1 + nivel_2 + nivel_3_mas; for an empty grid sin_cobertura is 100
\* and every other metric is 0.
C11_Particion ==
    (fit_pc = "done" /\ fit_in.f = "metricas_niveles_cobertura") =>
        IF fit_in.puntos_eval = << >>
        THEN fit_out = [ cobertura_total |-> 0, sin_cobertura |-> Pct100,
                         nivel_1 |-> 0, nivel_2 |-> 0, nivel_3_mas |-> 0 ]
        ELSE /\ SumSeq(ConteoNiveles(fit_in.puntos_eval, fit_in.camaras_totales,
                                     fit_in.radio_m))
                  = Len(fit_in.puntos_eval)
             /\ fit_out.sin_cobertura + fit_out.nivel_1 + fit_out.nivel_2
                  + fit_out.nivel_3_mas = Pct100
             /\ fit_out.cobertura_total
                  = fit_out.nivel_1 + fit_out.nivel_2 + fit_out.nivel_3_mas

\* C11 witness: a grid of five points with points in each of the four classes
C11_Witness ==
    /\ fit_pc = "done"
    /\ fit_in.f = "metricas_niveles_cobertura"
    /\ Len(fit_in.puntos_eval) = 5
    /\ fit_out.sin_cobertura > 0
    /\ fit_out.nivel_1 > 0
    /\ fit_out.nivel_2 > 0
    /\ fit_out.nivel_3_mas > 0


\* every returned grid point lies inside the box widened by the margin
GridDentro ==
    \A i \in 1..Len(fit_out) :
        EnCaja(fit_out[i], BboxAmpliado(fit_in.camaras, fit_in.margin_pct))

HayPoblacionPc == pc_pc = "loop" \/ (pc_pc \in {"done", "ValueError"} /\ camaras_pc # << >>)
HayPoblacionMc == pc_mc = "loop" \/ (pc_mc \in {"done", "ValueError"} /\ camaras_mc # << >>)

C13_Tamano ==
    /\ HayPoblacionPc => Len(poblacion_pc) = Max(cfg_pc.tam_poblacion, 0)
    /\ HayPoblacionMc => Len(poblacion_mc) = Max(cfg_mc.tam_poblacion, 0)

\* a generation step builds the next population as the elites of the
\* previous one followed by children, to the same size
C13_Reemplazo ==
    /\ gen_pc' = gen_pc + 1 =>
          LET e == Elites(poblacion_pc, FitnessesPc(poblacion_pc, camaras_pc, cfg_pc), cfg_pc.elitismo)
          IN  /\ Len(poblacion_pc') = Len(poblacion_pc)
              /\ SubSeq(poblacion_pc', 1, Len(e)) = e
              /\ Len(e) = Min(Max(1, cfg_pc.elitismo), Len(poblacion_pc))
    /\ gen_mc' = gen_mc + 1 =>
          LET e == Elites(poblacion_mc, FitnessesMc(poblacion_mc, puntos_eval, camaras_mc, cfg_mc), cfg_mc.elitismo)
          IN  /\ Len(poblacion_mc') = Len(poblacion_mc)
              /\ SubSeq(poblacion_mc', 1, Len(e)) = e
              /\ Len(e) = Min(Max(1, cfg_mc.elitismo), Len(poblacion_mc))

\* C13: in both genetic algorithms the population has exactly tam_poblacion
\* individuals (none for tam_poblacion <= 0) at the start of every
\* generation and after the last one, for every elitism value, elitismo <= 0
\* and elitismo >= tam_poblacion included; each generation's population is
\* the elites followed by children and replaces the previous one.
C13_PoblacionConstante == []C13_Tamano /\ [][C13_Reemplazo]_vars

\* both generations done with more elites asked for than individuals
C13_Witness ==
    /\ pc_pc = "done"
    /\ cfg_pc.elitismo > cfg_pc.tam_poblacion
    /\ cfg_pc.tam_poblacion >= 2
    /\ gen_pc = MaxGen
    /\ Len(poblacion_pc) = cfg_pc.tam_poblacion


\* every individual equals the first
Convergida(pob) == \A i \in 1..Len(pob) : pob[i] = pob[1]

\* a configuration the loops can work with: positive sizes, a tournament of
\* at least one contender, no negative radius or threshold and, where the
\* grid is generated, a step that advances it
ValidaPc ==
    /\ camaras_pc # << >>
    /\ cfg_pc.tam_poblacion >= 1 /\ cfg_pc.generaciones >= 1
    /\ cfg_pc.k_torneo >= 1
    /\ cfg_pc.radio_cobertura_m >= 0 /\ cfg_pc.min_separacion_m >= 0

ValidaMcBucle ==
    /\ ValidaMc
    /\ cfg_mc.k_torneo >= 1
    /\ cfg_mc.puntos_eval = << >> => PasoCeldas(cfg_mc.step_grid_m) >= 1
    /\ cfg_mc.radio_m >= 0
    /\ cfg_mc.min_dist_entre_nuevas_m >= 0 /\ cfg_mc.min_dist_a_existentes_m >= 0

\* a valid call is at its start, in its loop with at most generaciones
\* generations behind it, or done with exactly generaciones; in the loop
\* the next generation can always be produced
C14_Estados ==
    /\ (pc_pc # "idle" /\ ValidaPc) =>
          /\ pc_pc \in {"call", "loop", "done"}
          /\ gen_pc <= cfg_pc.generaciones
          /\ pc_pc = "call" => gen_pc = 0
          /\ pc_pc = "done" => gen_pc = cfg_pc.generaciones
          /\ (pc_pc = "loop" /\ gen_pc < cfg_pc.generaciones) =>
                NuevasPc(poblacion_pc, camaras_pc, cfg_pc) # { }
    /\ (pc_mc # "idle" /\ ValidaMcBucle) =>
          /\ pc_mc \in {"call", "loop", "done"}
          /\ gen_mc <= cfg_mc.generaciones
          /\ pc_mc = "call" => gen_mc = 0
          /\ pc_mc = "done" => gen_mc = cfg_mc.generaciones
          /\ (pc_mc = "loop" /\ gen_mc < cfg_mc.generaciones) =>
                NuevasMc(poblacion_mc, puntos_eval, camaras_mc, cfg_mc) # { }

\* a step in the loop is one more generation while fewer than generaciones
\* are done, whatever the population, and the return after that
C14_Paso ==
    /\ (ValidaPc /\ pc_pc = "loop") =>
          IF gen_pc < cfg_pc.generaciones
          THEN pc_pc' = "loop" /\ gen_pc' = gen_pc + 1
          ELSE pc_pc' = "done" /\ gen_pc' = gen_pc
    /\ (ValidaMcBucle /\ pc_mc = "loop") =>
          IF gen_mc < cfg_mc.generaciones
          THEN pc_mc' = "loop" /\ gen_mc' = gen_mc + 1
          ELSE pc_mc' = "done" /\ gen_mc' = gen_mc

\* C14: with cameras and a valid configuration each algorithm runs exactly
\* generaciones generations (evaluation, elites, parents, reproduction and
\* replacement are one step), never leaves the loop early, a converged
\* population included, and then returns: no step is ever blocked and every
\* step brings the return nearer.
C14_GeneracionesExactas == []C14_Estados /\ [][C14_Paso]_vars

\* a converged population with a generation behind it and one still to run
C14_Witness ==
    /\ pc_pc = "loop"
    /\ ValidaPc
    /\ gen_pc >= 1
    /\ gen_pc < cfg_pc.generaciones
    /\ Len(poblacion_pc) >= 2
    /\ Convergida(poblacion_pc)


\* C15 as stated: the draws come from a source given to the call, so two
\* calls of seleccion_torneo with identical arguments return identical
\* results, whatever was called before or between them.
C15_MismosArgumentosMismoResultado ==
    \A i \in 1..Len(az_hist) : \A j \in 1..Len(az_hist) :
        az_hist[i].args = az_hist[j].args =>
            az_hist[i].resultado = az_hist[j].resultado


\* C16 as stated: for every camera set that is not empty, a single camera
\* and coincident cameras included, and every positive spacing,
\* generar_grid_puntos terminates and returns at least one point.
C16_GridTerminaConPunto ==
    ( /\ fit_pc # "idle"
      /\ fit_in.f = "generar_grid_puntos"
      /\ fit_in.camaras # << >>
      /\ fit_in.step_m > 0
      /\ fit_in.max_points >= 0 ) =>
        /\ fit_pc \in {"call", "done"}
        /\ fit_pc = "done" => Len(fit_out) >= 1


\* C17 as stated: with cameras and a candidate no farther than the coverage
\* radius from the nearest one, a candidate exactly on a camera included,
\* fitness_punto_completo returns dmin / radius of 0.05, at most 0.05 and
\* strictly positive.
C17_CubiertoPositivo ==
    ( /\ fit_pc = "done"
      /\ fit_in.f = "fitness_punto_completo"
      /\ fit_in.camaras # << >>
      /\ _dist_min_a_camaras(fit_in.punto[1], fit_in.punto[2], fit_in.camaras)
           <= fit_in.radio_cobertura_m ) =>
        /\ fit_out > 0
        /\ fit_out <= CincoPorCiento
        /\ fit_out = Min(CincoPorCiento,
                         (CincoPorCiento * _dist_min_a_camaras(fit_in.punto[1], fit_in.punto[2], fit_in.camaras))
                           \div Max(fit_in.radio_cobertura_m, Eps))


\* the first m members of pob2 are the m fittest of pob, in the order of
\* sorted(..., reverse=True): fitter first, the earlier index first among
\* equals
PrimerosSonMejores(pob2, pob, fit, m) ==
    /\ m <= Len(pob2)
    /\ \A j \in 1..m : pob2[j] = pob[Orden(fit)[j]]
    /\ \A j \in 1..(m - 1) :
          \/ fit[Orden(fit)[j]] > fit[Orden(fit)[j + 1]]
          \/ fit[Orden(fit)[j]] = fit[Orden(fit)[j + 1]] /\ Orden(fit)[j] < Orden(fit)[j + 1]
    /\ \A i \in 1..Len(pob) :
          (\A j \in 1..m : Orden(fit)[j] # i) =>
              \A j \in 1..m : fit[i] <= fit[Orden(fit)[j]]

\* C18 as stated: for 0 <= elitismo <= population size a generation copies
\* exactly elitismo individuals, the fittest, as the first members of the
\* next population, and reproduction makes the other size - elitismo.
C18_ExactamenteE ==
    [][ /\ (gen_pc' = gen_pc + 1 /\ 0 <= cfg_pc.elitismo /\ cfg_pc.elitismo <= Len(poblacion_pc)) =>
              LET fit == FitnessesPc(poblacion_pc, camaras_pc, cfg_pc)
              IN  /\ Len(Elites(poblacion_pc, fit, cfg_pc.elitismo)) = cfg_pc.elitismo
                  /\ PrimerosSonMejores(poblacion_pc', poblacion_pc, fit, cfg_pc.elitismo)
        /\ (gen_mc' = gen_mc + 1 /\ 0 <= cfg_mc.elitismo /\ cfg_mc.elitismo <= Len(poblacion_mc)) =>
              LET fit == FitnessesMc(poblacion_mc, puntos_eval, camaras_mc, cfg_mc)
              IN  /\ Len(Elites(poblacion_mc, fit, cfg_mc.elitismo)) = cfg_mc.elitismo
                  /\ PrimerosSonMejores(poblacion_mc', poblacion_mc, fit, cfg_mc.elitismo)
      ]_vars

\* the number of elites of a generation: max(1, elitismo), and no more than
\* there are individuals
NumElites(elitismo, pob) == Min(Max(1, elitismo), Len(pob))

\* C18 amended: for every elitismo a generation copies exactly
\* max(1, elitismo) individuals (all of them when there are fewer), the
\* fittest, the earlier index first among equals, unchanged, as the first
\* members of the next population; the other members are new children.  With
\* elitismo = 0 one elite is still copied.
C18_ExactamenteMaxUnoE ==
    [][ /\ gen_pc' = gen_pc + 1 =>
              LET fit == FitnessesPc(poblacion_pc, camaras_pc, cfg_pc)
                  m == NumElites(cfg_pc.elitismo, poblacion_pc)
              IN  /\ Len(Elites(poblacion_pc, fit, cfg_pc.elitismo)) = m
                  /\ PrimerosSonMejores(poblacion_pc', poblacion_pc, fit, m)
                  /\ Len(poblacion_pc') = Max(cfg_pc.tam_poblacion, 0)
        /\ gen_mc' = gen_mc + 1 =>
              LET fit == FitnessesMc(poblacion_mc, puntos_eval, camaras_mc, cfg_mc)
                  m == NumElites(cfg_mc.elitismo, poblacion_mc)
              IN  /\ Len(Elites(poblacion_mc, fit, cfg_mc.elitismo)) = m
                  /\ PrimerosSonMejores(poblacion_mc', poblacion_mc, fit, m)
                  /\ Len(poblacion_mc') = Max(cfg_mc.tam_poblacion, 0)
      ]_vars

\* a generation run with elitismo = 0 whose first member is as fit as the
\* best of the population it replaced, and whose members are not all equal
C18_Witness ==
    /\ pc_pc = "loop"
    /\ cfg_pc.elitismo = 0
    /\ gen_pc >= 1
    /\ Len(poblacion_pc) >= 2
    /\ FitnessesPc(poblacion_pc, camaras_pc, cfg_pc)[1] = max_ant
    /\ ~Convergida(poblacion_pc)


\* individual i of the call a is the fittest of some min(k, size) distinct
\* contenders
GanaAlguno(a, i) ==
    \E S \in SUBSET (1..Len(a.poblacion)) :
        /\ Cardinality(S) = Min(a.k_torneo, Len(a.poblacion))
        /\ i \in S
        /\ \A j \in S : a.fitnesses[j] <= a.fitnesses[i]

\* the tournament property of one recorded call
TorneoCorrecto(h) ==
    LET a == h.args
        sz == Len(a.poblacion)
    IN  /\ Len(h.resultado) = a.n
        /\ h.resultado \in seleccion_torneo(a.poblacion, a.fitnesses, a.k_torneo, a.n)
        /\ \A e \in 1..Len(h.resultado) :
              /\ \E i \in 1..sz : a.poblacion[i] = h.resultado[e] /\ GanaAlguno(a, i)
              /\ a.k_torneo >= sz =>
                    \A i \in 1..sz :
                        a.poblacion[i] = h.resultado[e] =>
                            \A j \in 1..sz : a.fitnesses[j] <= a.fitnesses[i]
              /\ a.k_torneo >= 2 =>
                    \A i \in 1..sz :
                        (\A j \in (1..sz) \ {i} : a.fitnesses[i] < a.fitnesses[j]) =>
                            a.poblacion[i] # h.resultado[e]

\* C19: seleccion_torneo and _seleccion_torneo with k >= 1 on a population
\* that is not empty return exactly n entries, each a member of the
\* population that is the fittest of min(k, size) distinct contenders; with
\* k >= size every entry has the greatest fitness, and with k >= 2 an
\* individual strictly less fit than every other is never returned.
C19_Torneo == \A c \in 1..Len(az_hist) : TorneoCorrecto(az_hist[c])

\* a tournament of two among three individuals, one strictly the worst,
\* that returned two different parents
C19_Witness ==
    \E c \in 1..Len(az_hist) :
        LET a == az_hist[c].args
        IN  /\ Len(a.poblacion) = 3
            /\ a.k_torneo = 2
            /\ a.n = 2
            /\ \E i \in 1..3 : \A j \in (1..3) \ {i} : a.fitnesses[i] < a.fitnesses[j]
            /\ az_hist[c].resultado[1] # az_hist[c].resultado[2]


\* C20: in both genetic algorithms every point of every individual of every
\* population, and every point returned, lies inside the bounding box of the
\* cameras widened by the margin; individuals of the blind-spot algorithm
\* are held to the widened box only and may lie outside the box of the
\* cameras themselves.
C20_EnCajaAmpliada ==
    /\ HayPoblacionPc =>
          LET box == BboxAmpliado(camaras_pc, cfg_pc.margin_pct)
          IN  /\ \A i \in 1..Len(poblacion_pc) : EnCaja(poblacion_pc[i], box)
              /\ pc_pc = "done" =>
                    \A i \in 1..Len(retorno_pc) :
                        EnCaja(<< retorno_pc[i][1], retorno_pc[i][2] >>, box)
    /\ HayPoblacionMc =>
          LET box == BboxAmpliado(camaras_mc, cfg_mc.margin_pct)
          IN  /\ \A i \in 1..Len(poblacion_mc) :
                    \A j \in 1..Len(poblacion_mc[i]) : EnCaja(poblacion_mc[i][j], box)
              /\ \A j \in 1..Len(best_ind) : EnCaja(best_ind[j], box)
              /\ pc_mc = "done" =>
                    \A j \in 1..Len(retorno_mc.camaras_nuevas) :
                        EnCaja(retorno_mc.camaras_nuevas[j], box)

\* the blind-spot algorithm returned, after its generations, a point outside
\* the box of the cameras themselves
C20_Witness ==
    /\ pc_pc = "done"
    /\ gen_pc >= 1
    /\ cfg_pc.margin_pct > 0
    /\ \E i \in 1..Len(retorno_pc) :
          ~EnCaja(<< retorno_pc[i][1], retorno_pc[i][2] >>, _bbox(camaras_pc))


\* every input point of the call of _repair_separacion is inside the box
RepEntradaEnCaja ==
    \A i \in 1..Len(rep_in.ind) : EnCaja(rep_in.ind[i], rep_in.box)

\* C21: when _repair_separacion leaves its loop because an iteration changed
\* nothing, and every input point was inside the box, what it returns keeps
\* every point at min_dist_a_existentes_m or more from every existing camera
\* (for a threshold > 0) and every pair of points at
\* min_dist_entre_nuevas_m or more.
C21_SinCambioCumple ==
    (rep_pc = "done" /\ rep_salida = "sin_cambio" /\ RepEntradaEnCaja) =>
        /\ rep_in.min_dist_a_existentes_m > 0 =>
              \A i \in 1..Len(rep_out) :
                  ~MuyCercaDeExistente(rep_out[i], rep_in.camaras_existentes,
                                       rep_in.min_dist_a_existentes_m)
        /\ \A i \in 1..Len(rep_out) : \A j \in (i + 1)..Len(rep_out) :
              haversine_m(rep_out[i][1], rep_out[i][2], rep_out[j][1], rep_out[j][2])
                >= rep_in.min_dist_entre_nuevas_m

\* two points that were too close, repaired in a first iteration that
\* redrew one of them, and left unchanged by a second
C21_Witness ==
    /\ rep_pc = "done"
    /\ rep_salida = "sin_cambio"
    /\ RepEntradaEnCaja
    /\ rep_iters >= 2
    /\ Len(rep_out) = 2
    /\ rep_in.min_dist_entre_nuevas_m > 0
    /\ rep_out # rep_in.ind


\* the rule against the existing cameras leaves the point p alone
ReglaExistentesNoToca(p) ==
    \/ rep_in.min_dist_a_existentes_m <= 0
    \/ ~MuyCercaDeExistente(p, rep_in.camaras_existentes,
                            rep_in.min_dist_a_existentes_m)

\* while the first input point is left alone by the rule against the
\* existing cameras, the first point of out is that input point, clamped
\* into the box once the call has returned
C22_PrimeroIntacto ==
    (rep_pc # "idle" /\ rep_in.ind # << >> /\ ReglaExistentesNoToca(rep_in.ind[1])) =>
        rep_out[1] = IF rep_pc = "done"
                     THEN ClampInd(rep_in.ind, rep_in.box)[1]
                     ELSE rep_in.ind[1]

\* an iteration changes the first point only by the rule against the
\* existing cameras
C22_PasoPrimero ==
    (rep_pc = "loop" /\ rep_iters' = rep_iters + 1 /\ rep_out # << >>
       /\ ReglaExistentesNoToca(rep_out[1])) =>
        rep_out'[1] = rep_out[1]

\* C22: the pair rule of _repair_separacion redraws only the point of higher
\* index of a close pair, never the point at index 0: when the rule against
\* the existing cameras is off (threshold <= 0) or does not apply to that
\* point, the returned point at index 0 is the input point at index 0
\* clamped into the box, and an individual of one point is not changed by
\* the pair rule.
C22_ReglaDePares == []C22_PrimeroIntacto /\ [][C22_PasoPrimero]_vars

\* two equal input points outside the box, the rule against the existing
\* cameras off: the second was redrawn, the first returned clamped
C22_Witness ==
    /\ rep_pc = "done"
    /\ Len(rep_in.ind) = 2
    /\ rep_in.min_dist_a_existentes_m <= 0
    /\ rep_in.min_dist_entre_nuevas_m > 0
    /\ ~EnCaja(rep_in.ind[1], rep_in.box)
    /\ rep_out[1] = ClampInd(rep_in.ind, rep_in.box)[1]
    /\ rep_out[2] # ClampInd(rep_in.ind, rep_in.box)[2]


\* cameras that may be added to those of a call of
\* metricas_niveles_cobertura
CamarasDeMas == SeqsUpTo({ FitLinea[i] : i \in 1..5 }, MaxN) \ { << >> }

C24_MejorConserva ==
    (ref_pc \in {"loop", "done"} /\ ref_best # 0) =>
        /\ ref_best \in DOMAIN ref_heap
        /\ FitnessMc(ref_heap[ref_best], RefGrid, RefCamaras, ref_cfg) = ref_best_fit
        /\ ref_pc = "done" => ref_ret.camaras_nuevas = ref_heap[ref_best]

\* no list that outlives a step is changed by it
C24_Inmutables ==
    \A id \in (DOMAIN ref_heap) \cap (DOMAIN ref_heap') :
        ref_heap'[id] = ref_heap[id]

\* C24: crossover, mutation and repair never change the individuals passed
\* to them, each returns a new list; so an individual recorded as best_ind
\* or copied as an elite, though it is the same list as a member of the
\* population and a parent, keeps the points it had when its fitness was
\* computed through all later generations.
C24_SinAliasDanino == []C24_MejorConserva /\ [][C24_Inmutables]_vars

\* after two generations best_ind is the very list that is the first member
\* of the population, next to a child made later
C24_Witness ==
    /\ ref_pc = "loop"
    /\ ref_gen = 2
    /\ ref_best = ref_pob[1]
    /\ Len(ref_pob) >= 2
    /\ ref_pob[2] > ref_pob[1]
    /\ ref_heap[ref_pob[2]] # ref_heap[ref_pob[1]]


\* v lies in [lo - alpha*d, hi + alpha*d] for the parent values a and b
\* (all terms times 100, alpha being a percentage)
EnRangoBlx(a, b, v, alpha_pct) ==
    LET lo == IF a <= b THEN a ELSE b
        hi == IF a <= b THEN b ELSE a
    IN  /\ 100 * lo - alpha_pct * (hi - lo) <= 100 * v
        /\ 100 * v <= 100 * hi + alpha_pct * (hi - lo)

PuntoEnRangoBlx(p, q, h, alpha_pct) ==
    EnRangoBlx(p[1], q[1], h[1], alpha_pct) /\ EnRangoBlx(p[2], q[2], h[2], alpha_pct)

\* C25: with alpha >= 0 the child of a BLX-alpha crossover has, at each
\* position and on each axis, a value in [lo - alpha*d, hi + alpha*d] for
\* the parents' min lo, max hi and d = hi - lo; identical parents give an
\* identical child; the child of two individuals has
\* min(len(p1), len(p2)) points.
C25_HijoEnRango ==
    /\ (fit_pc = "done" /\ fit_in.f = "cruzar_blx_alpha" /\ fit_in.alpha_pct >= 0) =>
          /\ PuntoEnRangoBlx(fit_in.p1, fit_in.p2, fit_out, fit_in.alpha_pct)
          /\ fit_in.p1 = fit_in.p2 => fit_out = fit_in.p1
    /\ (fit_pc = "done" /\ fit_in.f = "_cruzar_individuo_blx" /\ fit_in.alpha_pct >= 0) =>
          /\ Len(fit_out) = (IF Len(fit_in.p1) <= Len(fit_in.p2)
                              THEN Len(fit_in.p1) ELSE Len(fit_in.p2))
          /\ \A i \in 1..Len(fit_out) :
                PuntoEnRangoBlx(fit_in.p1[i], fit_in.p2[i], fit_out[i], fit_in.alpha_pct)
          /\ fit_in.p1 = fit_in.p2 => fit_out = fit_in.p1

\* parents of different lengths, and a child value beyond both parents'
C25_Witness ==
    /\ fit_pc = "done"
    /\ fit_in.f = "_cruzar_individuo_blx"
    /\ fit_in.alpha_pct > 0
    /\ Len(fit_in.p1) = 2
    /\ Len(fit_in.p2) = 1
    /\ Len(fit_out) = 1
    /\ fit_out[1][1] > fit_in.p1[1][1]
    /\ fit_out[1][1] > fit_in.p2[1][1]


\* C26: with cameras and a valid configuration the fitness returned by
\* algoritmo_genetico_mejorar_cobertura is fitness_cobertura of the returned
\* camaras_nuevas on the same grid with the same penalty settings, and, the
\* penalty weights being non-negative, it is at most the cobertura_total of
\* the returned metrics.
C26_FitnessDelRetorno ==
    (pc_mc = "done" /\ ValidaMc) =>
        /\ retorno_mc.fitness =
              fitness_cobertura(puntos_eval, camaras_mc, retorno_mc.camaras_nuevas,
                                cfg_mc.radio_m, cfg_mc.penalizar_sobrecobertura,
                                cfg_mc.penalizar_cercania,
                                cfg_mc.min_dist_entre_nuevas_m,
                                cfg_mc.min_dist_a_existentes_m, cfg_mc.peso_cercania)
        /\ (cfg_mc.peso_cercania >= 0 /\ PesoSobrecoberturaPct >= 0) =>
              retorno_mc.fitness <= retorno_mc.metricas.cobertura_total

\* a run that returned a best individual whose penalties took something off
\* its total coverage
C26_Witness ==
    /\ pc_mc = "done"
    /\ ValidaMc
    /\ retorno_mc.fitness > 0
    /\ retorno_mc.fitness < retorno_mc.metricas.cobertura_total


\* C27: after any interleaving of concurrent registrar_usuario requests no
\* two stored users have the same normalized email: a request whose
\* normalized email is already stored is rejected with HTTP 400 and adds no
\* user, also when two requests for the same new email run their existence
\* check before either commits.
C27_CorreoUnico ==
    /\ \A i \in 1..Len(usr_tabla) : \A j \in 1..Len(usr_tabla) :
          i # j => usr_tabla[i] # usr_tabla[j]
    /\ \A r \in DOMAIN usr_req :
          usr_req[r].pc = "fin" => usr_req[r].resp \in {201, 400}

====
